---------------------------- MODULE Spec2Model ----------------------------
(***************************************************************************)
(* Data-sourcing and fallback-decision subsystem of the market-data        *)
(* gateway: the two request handlers (netlify/functions/tiingo.js and      *)
(* netlify/functions/tiingo-data.js), the TiingoClient with its            *)
(* SimpleCache and RateLimiter (tiingo-client.js) and the credential       *)
(* resolver (netlify/functions/env-check.js).                              *)
(*                                                                         *)
(* JavaScript strings are sequences of one-character strings, so that      *)
(* trimming, case conversion, slicing and pattern tests are computed on    *)
(* the characters.  Message literals that the code only stores and never   *)
(* inspects (warnings, meta.source, ...) are plain TLA+ strings.           *)
(***************************************************************************)
EXTENDS Integers, Sequences, FiniteSets, TLC

VARIABLES
    \* ---- request handlers (tiingo.js, tiingo-data.js) ----
    hImpl,      \* which handler file serves the request
    hEnvKey,    \* process.env.TIINGO_KEY
    hNow,       \* Date.now() at the request, in days since the epoch
    hEvent,     \* the event being handled
    hPc,        \* position of the async handler
    hFetches,   \* upstream requests issued so far
    hResp,      \* the upstream Response in hand
    hOut,       \* what the handler returned or threw
    \* ---- TiingoClient (tiingo-client.js) ----
    clock,      \* Date.now(), in ticks
    copt,       \* the options the client was constructed with
    cache,      \* SimpleCache.cache: key -> entry
    limiter,    \* the RateLimiter's fields
    call,       \* the calls in progress, by call id
    started,    \* calls started so far
    grantLog,   \* the acquisitions granted so far: when, and whether after a wait
    \* ---- credential resolver (env-check.js) ----
    env,        \* process.env: a sequence of <<name, value>> in insertion order
    ePc,        \* whether getTiingoTokenDetail has run
    resolved,   \* what getTiingoTokenDetail returned
    \* ---- series helpers (tiingo-client.js, utils/mock-tiingo.js) ----
    sCall,      \* one call of a pure helper: its arguments and its result
    \* ---- bundled mock data (utils/mock-tiingo.js) ----
    mockFiles,  \* data/tiingo-mock/<symbol>.json on the server, by symbol
    mockCache,  \* the mockCache Map: symbol -> record
    mockLoads,  \* the loadMockRecord / loadMockTiingo calls, by call id
    mockFetches, \* fetches issued so far, by symbol
    \* ---- TiingoClient instances (tiingo-client.js) ----
    clients,    \* the TiingoClient objects constructed so far, by identity
    defaultClient, \* the module variable defaultClient: 0 for null
    iCall       \* the call made through an instance or through tiingo.*

handlerVars == <<hImpl, hEnvKey, hNow, hEvent, hPc, hFetches, hResp, hOut>>
clientVars == <<clock, copt, cache, limiter, call, started, grantLog>>
envVars == <<env, ePc, resolved>>
mockVars == <<mockFiles, mockCache, mockLoads, mockFetches>>
instVars == <<clients, defaultClient, iCall>>
utilVars == <<sCall, mockVars, instVars>>
vars == <<handlerVars, clientVars, envVars, utilVars>>

-----------------------------------------------------------------------------
(* Characters and string primitives *)

LowerChars == {"a","b","c","d","e","f","g","h","i","j","k","l","m",
               "n","o","p","q","r","s","t","u","v","w","x","y","z"}
UpperChars == {"A","B","C","D","E","F","G","H","I","J","K","L","M",
               "N","O","P","Q","R","S","T","U","V","W","X","Y","Z"}
DigitChars == {"0","1","2","3","4","5","6","7","8","9"}
SpaceChars == {" "}

LowerOf == [c \in UpperChars |->
    CASE c = "A" -> "a" [] c = "B" -> "b" [] c = "C" -> "c" [] c = "D" -> "d"
      [] c = "E" -> "e" [] c = "F" -> "f" [] c = "G" -> "g" [] c = "H" -> "h"
      [] c = "I" -> "i" [] c = "J" -> "j" [] c = "K" -> "k" [] c = "L" -> "l"
      [] c = "M" -> "m" [] c = "N" -> "n" [] c = "O" -> "o" [] c = "P" -> "p"
      [] c = "Q" -> "q" [] c = "R" -> "r" [] c = "S" -> "s" [] c = "T" -> "t"
      [] c = "U" -> "u" [] c = "V" -> "v" [] c = "W" -> "w" [] c = "X" -> "x"
      [] c = "Y" -> "y" [] c = "Z" -> "z"]

UpperOf == [c \in LowerChars |-> CHOOSE u \in UpperChars : LowerOf[u] = c]

DigitVal == [c \in DigitChars |->
    CASE c = "0" -> 0 [] c = "1" -> 1 [] c = "2" -> 2 [] c = "3" -> 3
      [] c = "4" -> 4 [] c = "5" -> 5 [] c = "6" -> 6 [] c = "7" -> 7
      [] c = "8" -> 8 [] c = "9" -> 9]

\* String.prototype.toLowerCase / toUpperCase
toLowerCase(s) == [i \in 1..Len(s) |-> IF s[i] \in UpperChars THEN LowerOf[s[i]] ELSE s[i]]
toUpperCase(s) == [i \in 1..Len(s) |-> IF s[i] \in LowerChars THEN UpperOf[s[i]] ELSE s[i]]

\* String.prototype.trim
RECURSIVE trimStart(_)
trimStart(s) == IF s # <<>> /\ Head(s) \in SpaceChars THEN trimStart(Tail(s)) ELSE s
RECURSIVE trimEnd(_)
trimEnd(s) ==
    IF s # <<>> /\ s[Len(s)] \in SpaceChars THEN trimEnd(SubSeq(s, 1, Len(s) - 1)) ELSE s
trim(s) == trimEnd(trimStart(s))

\* String.prototype.endsWith / includes
endsWith(s, p) == Len(p) <= Len(s) /\ SubSeq(s, Len(s) - Len(p) + 1, Len(s)) = p
includes(s, p) == \E i \in 1..(Len(s) - Len(p) + 1) : SubSeq(s, i, i + Len(p) - 1) = p

\* String.prototype.slice(a, b) with non-negative a, b (0-based, b excluded),
\* and slice(-n): the last n characters
sliceStr(s, a, b) == SubSeq(s, a + 1, IF b < Len(s) THEN b ELSE Len(s))
sliceLast(s, n) == SubSeq(s, (IF Len(s) - n < 0 THEN 0 ELSE Len(s) - n) + 1, Len(s))

\* The value of a run of decimal digits
RECURSIVE digitsValue(_)
digitsValue(ds) ==
    IF ds = <<>> THEN 0
    ELSE 10 * digitsValue(SubSeq(ds, 1, Len(ds) - 1)) + DigitVal[ds[Len(ds)]]

\* The longest run of digits at the head of s
RECURSIVE leadingDigits(_)
leadingDigits(s) ==
    IF s # <<>> /\ Head(s) \in DigitChars THEN <<Head(s)>> \o leadingDigits(Tail(s)) ELSE <<>>

\* A JavaScript number that may be NaN
NaN == [nan |-> TRUE, v |-> 0]
Num(n) == [nan |-> FALSE, v |-> n]

\* parseInt(s, 10): leading white space, an optional sign, then digits
parseInt(s) ==
    LET t == trimStart(s)
        neg == t # <<>> /\ Head(t) = "-"
        u == IF t # <<>> /\ Head(t) \in {"-", "+"} THEN Tail(t) ELSE t
        ds == leadingDigits(u)
    IN  IF ds = <<>> THEN NaN
        ELSE Num(IF neg THEN 0 - digitsValue(ds) ELSE digitsValue(ds))

\* x || d for a number x: NaN and 0 are falsy
orDefault(x, d) == IF x.nan \/ x.v = 0 THEN d ELSE x.v

Min(a, b) == IF a < b THEN a ELSE b
Max(a, b) == IF a > b THEN a ELSE b

\* An optional value (a query parameter, an environment variable)
None == [has |-> FALSE, s |-> <<>>]
Some(s) == [has |-> TRUE, s |-> s]
\* p ?? d
nullish(p, d) == IF p.has THEN p.s ELSE d

-----------------------------------------------------------------------------
(* JavaScript values of the provider's JSON fields and Date arithmetic *)

Undefined == [k |-> "undefined", n |-> 0]
Null == [k |-> "null", n |-> 0]
Number(n) == [k |-> "number", n |-> n]

\* value ?? other
coalesce(a, b) == IF a.k \in {"undefined", "null"} THEN b ELSE a
\* truthiness of a field value
truthy(a) == a.k = "number" /\ a.n # 0

\* The range of a Date's time value, +-8.64e15 ms, in days (ECMAScript TimeClip)
MaxDateDays == 10000 * 10000
MinutesPerDay == 24 * 60

\* new Date(value) holds a time (and toISOString does not throw RangeError)
dateValid(day) == 0 - MaxDateDays <= day /\ day <= MaxDateDays

\* floor((i * minutes) / MinutesPerDay), computed without forming the product
offsetDays(i, minutes) ==
    i * (minutes \div MinutesPerDay) + (i * (minutes % MinutesPerDay)) \div MinutesPerDay

-----------------------------------------------------------------------------
(* netlify/functions/tiingo.js: helpers *)

ASX_TICKERS == {<<"W","O","W">>, <<"C","B","A">>, <<"B","H","P">>, <<"C","S","L">>, <<"W","E","S">>,
                <<"A","N","Z">>, <<"N","A","B">>, <<"W","B","C">>, <<"R","I","O">>, <<"T","L","S">>}

\* ASX_SYMBOL_MAP[upper], <<>> when the table has no such key
ASX_SYMBOL_MAP(upper) == IF upper \in ASX_TICKERS THEN upper \o <<".","A","X">> ELSE <<>>

\* BASE_PRICE_MAP[key] in cents, Undefined when the table has no such key
BASE_PRICE_MAP(key) ==
    CASE key = <<"A","A","P","L">> -> Number(25800)
      [] key = <<"M","S","F","T">> -> Number(41500)
      [] key = <<"G","O","O","G","L">> -> Number(16700)
      [] key = <<"T","S","L","A">> -> Number(24000)
      [] key \in {<<"W","O","W">>, <<"W","O","W",".","A","X">>} -> Number(2655)
      [] key \in {<<"C","B","A">>, <<"C","B","A",".","A","X">>} -> Number(13050)
      [] key \in {<<"B","H","P">>, <<"B","H","P",".","A","X">>} -> Number(4280)
      [] key \in {<<"C","S","L">>, <<"C","S","L",".","A","X">>} -> Number(28000)
      [] key \in {<<"W","E","S">>, <<"W","E","S",".","A","X">>} -> Number(5230)
      [] key \in {<<"A","N","Z">>, <<"A","N","Z",".","A","X">>} -> Number(2945)
      [] key \in {<<"N","A","B">>, <<"N","A","B",".","A","X">>} -> Number(3720)
      [] key \in {<<"W","B","C">>, <<"W","B","C",".","A","X">>} -> Number(2680)
      [] key \in {<<"R","I","O">>, <<"R","I","O",".","A","X">>} -> Number(11850)
      [] key \in {<<"T","L","S">>, <<"T","L","S",".","A","X">>} -> Number(412)
      [] key = <<"D","E","F","A","U","L","T">> -> Number(10000)
      [] OTHER -> Undefined

\* Number(value) is finite ? it : fallback   (Number(null) is 0)
ensureNumber(value, fallback) ==
    CASE value.k = "number" -> value.n
      [] value.k = "null" -> 0
      [] OTHER -> fallback

previewToken(token) ==
    IF ~token.has \/ token.s = <<>> THEN <<>>
    ELSE LET trimmed == trim(token.s)
         IN  IF trimmed = <<>> THEN <<>>
             ELSE IF Len(trimmed) <= 4 THEN trimmed
             ELSE sliceStr(trimmed, 0, 4) \o <<"*","*","*">>

mapSymbolForAPI(symbol) ==
    LET raw == trim(symbol)
        upper == toUpperCase(raw)
    IN  IF raw = <<>> THEN <<>>
        ELSE IF includes(upper, <<".","A","X">>) THEN upper
        ELSE IF ASX_SYMBOL_MAP(upper) # <<>> THEN ASX_SYMBOL_MAP(upper)
        ELSE upper

\* detectCurrency, had it tested for ".AX" the way mapSymbolForAPI does
detectCurrencyByIncludes(symbol) ==
    LET upper == toUpperCase(symbol)
    IN  IF includes(upper, <<".","A","X">>) THEN "AUD"
        ELSE IF endsWith(upper, <<".","L">>) \/ includes(upper, <<".","L","O","N">>) THEN "GBP"
        ELSE IF endsWith(upper, <<".","T","O">>) \/ endsWith(upper, <<".","T","S","E">>) THEN "CAD"
        ELSE "USD"

detectCurrency(symbol) ==
    LET upper == toUpperCase(symbol)
    IN  IF endsWith(upper, <<".","A","X">>) THEN "AUD"
        ELSE IF endsWith(upper, <<".","L">>) \/ includes(upper, <<".","L","O","N">>) THEN "GBP"
        ELSE IF endsWith(upper, <<".","T","O">>) \/ endsWith(upper, <<".","T","S","E">>) THEN "CAD"
        ELSE "USD"

detectExchange(symbol) ==
    LET upper == toUpperCase(symbol)
    IN  IF endsWith(upper, <<".","A","X">>) THEN "ASX"
        ELSE IF endsWith(upper, <<".","L">>) \/ includes(upper, <<".","L","O","N">>) THEN "LSE"
        ELSE IF endsWith(upper, <<".","T","O">>) \/ endsWith(upper, <<".","T","S","E">>) THEN "TSE"
        ELSE "NASDAQ/NYSE"

\* change / prevClose * 100 as the fraction num / den
Percent(change, prevClose) ==
    IF prevClose # 0 THEN [num |-> change * 100, den |-> prevClose] ELSE [num |-> 0, den |-> 1]

buildQuoteFromTiingo(quote, mappedSymbol, originalSymbol) ==
    LET last == ensureNumber(coalesce(quote.last, quote.tngoLast), 0)
        prevClose == ensureNumber(quote.prevClose, last)
        open == ensureNumber(quote.open, last)
        high == ensureNumber(quote.high, Max(open, last))
        low == ensureNumber(quote.low, Min(open, last))
        change == last - prevClose
    IN  [symbol |-> toUpperCase(originalSymbol),
         last |-> last, close |-> last, price |-> last,
         prevClose |-> prevClose, previousClose |-> prevClose,
         open |-> open, high |-> high, low |-> low,
         volume |-> ensureNumber(quote.volume, 0),
         change |-> change,
         changePercent |-> Percent(change, prevClose),
         exchange |-> detectExchange(mappedSymbol),
         currency |-> detectCurrency(mappedSymbol),
         source |-> "live"]

\* Math.random() is drawn from {0, 1/RandDen, ..., (RandDen-1)/RandDen}
RandDen == 2
RandSteps == 0..(RandDen - 1)

\* Number((n / d).toFixed(2)) in cents, for n / d in cents
toFixed2(n, d) == (2 * n + d) \div (2 * d)

\* (mappedSymbol || originalSymbol || "DEFAULT").toUpperCase()
baseKey(originalSymbol, mappedSymbol) ==
    toUpperCase(IF mappedSymbol # <<>> THEN mappedSymbol
                ELSE IF originalSymbol # <<>> THEN originalSymbol
                ELSE <<"D","E","F","A","U","L","T">>)

\* rnd[1..6] are the six Math.random() draws in the order the code makes them
generateFallbackQuote(originalSymbol, mappedSymbol, rnd) ==
    LET key == baseKey(originalSymbol, mappedSymbol)
        base == ensureNumber(BASE_PRICE_MAP(key), BASE_PRICE_MAP(<<"D","E","F","A","U","L","T">>).n)
        \* base * (0.99 + r * 0.02)
        last == toFixed2(base * (99 * RandDen + 2 * rnd[1]), 100 * RandDen)
        \* last * (0.995 + r * 0.01)
        prevClose == toFixed2(last * (995 * RandDen + 10 * rnd[2]), 1000 * RandDen)
        open == toFixed2(last * (995 * RandDen + 10 * rnd[3]), 1000 * RandDen)
        \* max(open, last) * (1 + r * 0.01)
        high == toFixed2(Max(open, last) * (100 * RandDen + rnd[4]), 100 * RandDen)
        \* min(open, last) * (1 - r * 0.01)
        low == toFixed2(Min(open, last) * (100 * RandDen - rnd[5]), 100 * RandDen)
        change == last - prevClose
    IN  [symbol |-> toUpperCase(originalSymbol),
         last |-> last, close |-> last, price |-> last,
         prevClose |-> prevClose, previousClose |-> prevClose,
         open |-> open, high |-> high, low |-> low,
         volume |-> (1500000 * rnd[6]) \div RandDen + 250000,
         change |-> change,
         changePercent |-> Percent(change, prevClose),
         exchange |-> detectExchange(mappedSymbol),
         currency |-> detectCurrency(mappedSymbol),
         source |-> "fallback"]

parseIntervalMinutes(interval) ==
    LET value == toLowerCase(trim(interval))
        starts == {i \in 1..Len(value) : value[i] \in DigitChars}
    IN  IF starts = {} THEN 5
        ELSE LET first == CHOOSE i \in starts : \A j \in starts : i <= j
                 raw == digitsValue(leadingDigits(SubSeq(value, first, Len(value))))
             IN  IF raw > 0 THEN raw ELSE 5

\* A generated series: one bar per i = limit-1 .. 0, stamped now - i * step.
\* The bars keep their position in time; their prices (Math.random, Math.sin)
\* are not modelled.  threw: toISOString raised RangeError on the first bar.
seriesBars(limit) == [j \in 1..limit |-> [idx |-> limit - j]]

generateFallbackIntradaySeries(limit, intervalMinutes, now) ==
    IF limit >= 1 /\ ~dateValid(now - offsetDays(limit - 1, intervalMinutes))
    THEN [threw |-> TRUE, rows |-> <<>>, stepMinutes |-> intervalMinutes]
    ELSE [threw |-> FALSE, rows |-> seriesBars(limit), stepMinutes |-> intervalMinutes]

generateFallbackDailySeries(limit, now) ==
    IF limit >= 1 /\ ~dateValid(now - (limit - 1))
    THEN [threw |-> TRUE, rows |-> <<>>, stepMinutes |-> MinutesPerDay]
    ELSE [threw |-> FALSE, rows |-> seriesBars(limit), stepMinutes |-> MinutesPerDay]

normaliseKind(kind) ==
    LET value == toLowerCase(trim(nullish(kind, <<>>)))
    IN  IF value # <<>> THEN value ELSE <<"i","n","t","r","a","d","a","y","_","l","a","t","e","s","t">>

\* applyFallback(meta, source, fallbackKey, reasonMessage)
applyFallback(meta, source, fallbackKey, reasonMessage) ==
    LET m == [meta EXCEPT !.reason = "fallback", !.source = source, !.fallback = fallbackKey]
    IN  IF reasonMessage # "" THEN [m EXCEPT !.message = reasonMessage] ELSE m

-----------------------------------------------------------------------------
(* The provider's answers and the inbound events *)

\* item.name, Undefined when the object has no such property
field(item, name) == IF name \in DOMAIN item THEN item[name] ELSE Undefined

\* Array.prototype.slice(0, -start): the cut taken from the head
sliceHead(items, start) ==
    SubSeq(items, 1, Min(IF start < 0 THEN 0 - start ELSE start, Len(items)))

\* Array.prototype.slice(start)
sliceFrom(items, start) ==
    LET n == Len(items)
        k == IF start < 0 THEN Max(n + start, 0) ELSE Min(start, n)
    IN  SubSeq(items, k + 1, n)

NullItem == [t |-> "null"]
BarItem(i) == [t |-> "bar", date |-> Number(i), open |-> Number(100 + i),
               high |-> Number(102 + i), low |-> Number(99 + i),
               close |-> Number(101 + i), volume |-> Number(1000), adjClose |-> Undefined]
QuoteItem(last, tngoLast, prevClose, high) ==
    [t |-> "quote", last |-> last, tngoLast |-> tngoLast, prevClose |-> prevClose,
     open |-> Undefined, high |-> high, low |-> Undefined, volume |-> Number(500)]
ErrorItem == [t |-> "error", detail |-> "Not found."]

\* The largest array the provider returns in the model
MaxRows == 3
\* A payload longer than the largest series the handlers mean to return
ManyRows == 371
Bars(n) == [i \in 1..n |-> BarItem(i)]

\* Quotes of the provider: every combination of last and tngoLast, and a
\* quote that lacks prevClose, has a null prevClose or reports a low high
QuoteItems ==
    {QuoteItem(l, t, Number(400), Undefined) :
        l \in {Undefined, Null, Number(0), Number(500)},
        t \in {Undefined, Number(700)}}
    \cup {QuoteItem(Number(500), Undefined, p, Undefined) : p \in {Undefined, Null}}
    \cup {QuoteItem(Number(500), Undefined, Number(400), Number(100))}

\* Bodies every endpoint of the provider may answer with
Payloads ==
    {[t |-> "null"], [t |-> "string"], [t |-> "object", obj |-> ErrorItem]}
    \cup {[t |-> "array", items |-> Bars(n)] : n \in 0..MaxRows \cup {ManyRows}}
    \cup {[t |-> "array", items |-> <<NullItem>>]}

\* Bodies of the quote endpoint (/iex?tickers=): a quote, alone or in an array
QuotePayloads ==
    {[t |-> "object", obj |-> q] : q \in QuoteItems}
    \cup {[t |-> "array", items |-> <<q>>] : q \in QuoteItems}

\* What the awaited fetch and response.json() settle to
Rejected == [rejected |-> TRUE, ok |-> FALSE, status |-> 0, parses |-> FALSE,
             value |-> [t |-> "null"]]
Responded(status, parses, value) ==
    [rejected |-> FALSE, ok |-> status \in 200..299, status |-> status,
     parses |-> parses, value |-> value]

Settlements ==
    {Rejected}
    \cup {Responded(200, TRUE, p) : p \in Payloads}
    \cup {Responded(s, FALSE, [t |-> "null"]) : s \in {200, 500}}
    \cup {Responded(s, TRUE, p) :
            s \in {404, 500},
            p \in {[t |-> "null"], [t |-> "object", obj |-> ErrorItem],
                   [t |-> "array", items |-> Bars(1)]}}

QuoteSettlements == {Responded(200, TRUE, p) : p \in QuotePayloads}

K_intraday_latest == <<"i","n","t","r","a","d","a","y","_","l","a","t","e","s","t">>
K_intraday == <<"i","n","t","r","a","d","a","y">>
K_eod == <<"e","o","d">>
K_news == <<"n","e","w","s">>
K_documents == <<"d","o","c","u","m","e","n","t","s">>
K_actions == <<"a","c","t","i","o","n","s">>
K_filings == <<"f","i","l","i","n","g","s">>
K_statements == <<"s","t","a","t","e","m","e","n","t","s">>

\* The list kinds, had the switch answered valuation with an empty list too
ListKindsAndValuation ==
    {K_news, K_documents, K_actions, K_filings, K_statements, <<"v","a","l","u","a","t","i","o","n">>}

ListKinds == {K_news, K_documents, K_actions, K_filings, K_statements}
FetchKinds == {K_intraday_latest, K_intraday, K_eod}

Methods == {"GET", "OPTIONS"}
SymbolParams ==
    {None, Some(<<>>), Some(<<" "," ">>), Some(<<"a","a","p","l">>), Some(<<" ","w","o","w"," ">>), Some(<<"z","z","z",".","a","x">>)}
KindParams ==
    {None, Some(<<>>)}
    \cup {Some(k) : k \in FetchKinds \cup ListKinds}
    \cup {Some(<<"E","O","D">>), Some(<<"q","u","o","t","e">>), Some(<<"v","a","l","u","a","t","i","o","n">>)}
LimitParams ==
    {None, Some(<<"0">>), Some(<<"-","5">>), Some(<<"a","b","c">>), Some(<<"2">>), Some(<<"4","0","0">>),
     Some(<<"-","2","0","0","0","0","0","0","0","0">>)}
IntervalParams ==
    {None, Some(<<"5","m","i","n">>), Some(<<"1","h","o","u","r">>), Some(<<"0","m","i","n">>), Some(<<"a","b","c">>),
     Some(<<"1","0","0","0","0","0","0","0","0","0","m","i","n">>)}

\* limit and interval are varied for the kinds that read them
Events ==
    {e \in [httpMethod : Methods, symbol : SymbolParams, kind : KindParams,
            limit : LimitParams, interval : IntervalParams] :
        LET k == toLowerCase(trim(nullish(e.kind, <<>>)))
        IN  /\ (e.limit.has => k \in {K_intraday, K_eod})
            /\ (e.interval.has => k = K_intraday)
            /\ (e.httpMethod = "OPTIONS" => ~e.limit.has /\ ~e.interval.has)}

NoEvent == [httpMethod |-> "", symbol |-> None, kind |-> None, limit |-> None,
            interval |-> None]

EnvKeys == {None, Some(<<>>), Some(<<"s","e","c","r","e","t","t","o","k","e","n","1","2","3">>), Some(<<"a","b","c">>)}
\* Date.now() in days since the epoch
NowDays == {20000}

NoRandom == [i \in 1..6 |-> 0]
Randoms == [1..6 -> RandSteps]

-----------------------------------------------------------------------------
(* netlify/functions/tiingo.js: handler *)

\* What a handler invocation ends with
Returned(statusCode, body, generated) ==
    [threw |-> FALSE, statusCode |-> statusCode, body |-> body, generated |-> generated]
Threw == [threw |-> TRUE, statusCode |-> 0, body |-> [t |-> "none"], generated |-> TRUE]
NoOut == [threw |-> FALSE, statusCode |-> 0, body |-> [t |-> "none"], generated |-> FALSE]

EmptyBody == [t |-> "empty"]
ErrorBody(msg) == [t |-> "error", error |-> msg]

tokenOf(envKey) == IF envKey.has THEN envKey.s ELSE <<>>

\* const limit = Math.min(parseInt(query.limit ?? dflt, 10) || dflt, max)
tiingoLimit(ev, dflt, max) ==
    Min(orDefault(IF ev.limit.has THEN parseInt(ev.limit.s) ELSE Num(dflt), dflt), max)

tiingoIntradayLimit(ev) == tiingoLimit(ev, 150, 300)
tiingoEodLimit(ev) == tiingoLimit(ev, 180, 365)
tiingoIntervalMinutes(ev) == parseIntervalMinutes(nullish(ev.interval, <<"5","m","i","n">>))

\* lookbackDays without the ten-day cap: Math.max(minimumDays + 2, 3)
intradayLookbackUncapped(limit, intervalMinutes) ==
    Max(Max(1, (limit * intervalMinutes + 389) \div 390) + 2, 3)

\* lookbackDays of the intraday request
intradayLookbackDays(limit, intervalMinutes) ==
    LET minutesPerTradingDay == 390
        \* Math.ceil(requiredMinutes / minutesPerTradingDay), without forming the product
        q == intervalMinutes \div minutesPerTradingDay
        r == intervalMinutes % minutesPerTradingDay
        whole == limit * q + (limit * r) \div minutesPerTradingDay
        ceil == IF (limit * r) % minutesPerTradingDay = 0 THEN whole ELSE whole + 1
        minimumDays == Max(1, ceil)
    IN  Min(10, Max(minimumDays + 2, 3))

tiingoMeta(ev, envKey, now) ==
    LET mappedSymbol == mapSymbolForAPI(trim(nullish(ev.symbol, <<>>)))
        token == tokenOf(envKey)
    IN  [currency |-> detectCurrency(mappedSymbol),
         exchange |-> detectExchange(mappedSymbol),
         timestamp |-> now,
         kind |-> normaliseKind(ev.kind),
         source |-> "live",
         fallback |-> "",
         reason |-> "ok",
         chosenKey |-> IF token # <<>> THEN "env:TIINGO_KEY" ELSE "",
         tokenPreview |-> previewToken(envKey),
         message |-> ""]

\* The outcome of a try block: the data it produced, or the error it caught
Live(data) == [ok |-> TRUE, data |-> data, message |-> ""]
Caught(message) == [ok |-> FALSE, data |-> <<>>, message |-> message]

\* rows of the live intraday path
intradayRow(item) ==
    [timestamp |-> field(item, "date"),
     open |-> ensureNumber(field(item, "open"), 0),
     high |-> ensureNumber(field(item, "high"), 0),
     low |-> ensureNumber(field(item, "low"), 0),
     close |-> ensureNumber(field(item, "close"), 0),
     volume |-> ensureNumber(field(item, "volume"), 0)]

\* rows of the live eod path
eodRow(item) ==
    [date |-> field(item, "date"),
     open |-> ensureNumber(field(item, "open"), 0),
     high |-> ensureNumber(field(item, "high"), 0),
     low |-> ensureNumber(field(item, "low"), 0),
     close |-> ensureNumber(field(item, "close"), 0),
     volume |-> ensureNumber(field(item, "volume"), 0),
     adjClose |-> ensureNumber(coalesce(field(item, "adjClose"), field(item, "close")), 0)]

\* try { fetch; response.json(); ... } of case "intraday_latest"
tiingoTryLatest(ev, u) ==
    LET rawSymbol == trim(nullish(ev.symbol, <<>>))
        mappedSymbol == mapSymbolForAPI(rawSymbol)
        rawData == u.value
        isArr == rawData.t = "array"
        hasQuote == IF isArr THEN rawData.items # <<>> /\ rawData.items[1].t # "null"
                    ELSE rawData.t = "object"
        quote == IF isArr THEN rawData.items[1] ELSE rawData.obj
    IN  IF u.rejected THEN Caught("fetch failed")
        ELSE IF ~u.parses THEN Caught("Unexpected token in JSON")
        ELSE IF ~u.ok THEN Caught("Tiingo API error: status")
        ELSE IF hasQuote /\ (truthy(field(quote, "last")) \/ truthy(field(quote, "tngoLast")))
             THEN Live(<<buildQuoteFromTiingo(
                            [last |-> field(quote, "last"), tngoLast |-> field(quote, "tngoLast"),
                             prevClose |-> field(quote, "prevClose"), open |-> field(quote, "open"),
                             high |-> field(quote, "high"), low |-> field(quote, "low"),
                             volume |-> field(quote, "volume")],
                            mappedSymbol, rawSymbol)>>)
        ELSE Caught("No quote returned")

\* try { ... } of case "intraday", after the fetch settled
tiingoTryIntraday(ev, u) ==
    LET limit == tiingoIntradayLimit(ev)
        rawData == u.value
        detail == IF rawData.t = "object" /\ rawData.obj.t = "error"
                  THEN rawData.obj.detail ELSE ""
    IN  IF u.rejected THEN Caught("fetch failed")
        ELSE IF ~u.parses THEN Caught("Unexpected token in JSON")
        ELSE IF ~u.ok
             THEN Caught(IF detail # "" THEN detail ELSE "Tiingo API error: status")
        ELSE IF rawData.t # "array" \/ rawData.items = <<>>
             THEN Caught("No intraday data returned.")
        ELSE LET cut == sliceFrom(rawData.items, 0 - limit)
             IN  IF \E i \in 1..Len(cut) : cut[i].t = "null"
                 THEN Caught("Cannot read properties of null")
                 ELSE Live([i \in 1..Len(cut) |-> intradayRow(cut[i])])

\* try { ... } of case "eod", after the fetch settled
tiingoTryEod(ev, u) ==
    LET limit == tiingoEodLimit(ev)
        rawData == u.value
    IN  IF u.rejected THEN Caught("fetch failed")
        ELSE IF ~u.parses THEN Caught("Unexpected token in JSON")
        ELSE IF ~u.ok \/ rawData.t # "array" \/ rawData.items = <<>>
             THEN Caught("Tiingo API error: status")
        ELSE LET cut == sliceFrom(rawData.items, 0 - limit)
             IN  IF \E i \in 1..Len(cut) : cut[i].t = "null"
                 THEN Caught("Cannot read properties of null")
                 ELSE Live([i \in 1..Len(cut) |-> eodRow(cut[i])])

tiingoTry(ev, u) ==
    LET kind == normaliseKind(ev.kind)
    IN  CASE kind = K_intraday_latest -> tiingoTryLatest(ev, u)
          [] kind = K_intraday -> tiingoTryIntraday(ev, u)
          [] OTHER -> tiingoTryEod(ev, u)

Envelope(ev, data, meta, warning) ==
    LET rawSymbol == trim(nullish(ev.symbol, <<>>))
    IN  [t |-> "envelope",
         originalSymbol |-> toUpperCase(rawSymbol),
         mappedSymbol |-> mapSymbolForAPI(rawSymbol),
         symbol |-> toUpperCase(rawSymbol),
         data |-> data,
         meta |-> meta,
         warning |-> warning]

\* The switch from the point where the live attempt (if any) is over to the
\* return: att is Live/Caught when a token was configured, and hasToken is
\* FALSE on the else branches.
tiingoComplete(ev, envKey, now, att, rnd) ==
    LET rawSymbol == trim(nullish(ev.symbol, <<>>))
        mappedSymbol == mapSymbolForAPI(rawSymbol)
        kind == normaliseKind(ev.kind)
        hasToken == tokenOf(envKey) # <<>>
        meta0 == tiingoMeta(ev, envKey, now)
    IN  CASE kind = K_intraday_latest ->
              LET meta == IF hasToken
                          THEN IF att.ok THEN meta0
                               ELSE applyFallback(meta0, "fallback", "intraday_latest", att.message)
                          ELSE applyFallback(meta0, "mock", "missing-token", "Token not configured")
                  warning == IF hasToken
                             THEN IF att.ok THEN ""
                                  ELSE "Live data unavailable. Showing fallback quote."
                             ELSE "Tiingo token missing. Showing sample data."
                  live == hasToken /\ att.ok
                  data == IF live THEN att.data
                          ELSE <<generateFallbackQuote(rawSymbol, mappedSymbol, rnd)>>
              IN  Returned(200, Envelope(ev, data, meta, warning), ~live)
          [] kind = K_intraday ->
              LET limit == tiingoIntradayLimit(ev)
                  intervalMinutes == tiingoIntervalMinutes(ev)
                  meta == IF hasToken
                          THEN IF att.ok THEN meta0
                               ELSE applyFallback(meta0, "fallback", "intraday", att.message)
                          ELSE applyFallback(meta0, "mock", "missing-token", "Token not configured")
                  warning == IF hasToken
                             THEN IF att.ok THEN ""
                                  ELSE "Live intraday data unavailable. Showing fallback series."
                             ELSE "Tiingo token missing. Showing sample intraday series."
                  rows == IF hasToken /\ att.ok THEN att.data ELSE <<>>
                  gen == generateFallbackIntradaySeries(limit, intervalMinutes, now)
              IN  IF rows # <<>> THEN Returned(200, Envelope(ev, rows, meta, warning), FALSE)
                  ELSE IF gen.threw THEN Threw
                  ELSE Returned(200, Envelope(ev, gen.rows, meta, warning), TRUE)
          [] kind = K_eod ->
              LET limit == tiingoEodLimit(ev)
                  meta == IF hasToken
                          THEN IF att.ok THEN meta0
                               ELSE applyFallback(meta0, "eod-fallback", "eod", att.message)
                          ELSE applyFallback(meta0, "mock", "missing-token", "Token not configured")
                  warning == IF hasToken
                             THEN IF att.ok THEN ""
                                  ELSE "Live EOD data unavailable. Showing fallback series."
                             ELSE "Tiingo token missing. Showing sample EOD series."
                  rows == IF hasToken /\ att.ok THEN att.data ELSE <<>>
                  meta2 == IF meta.source # "mock" THEN [meta EXCEPT !.source = "eod-fallback"]
                           ELSE meta
                  gen == generateFallbackDailySeries(limit, now)
              IN  IF rows # <<>> THEN Returned(200, Envelope(ev, rows, meta, warning), FALSE)
                  ELSE IF gen.threw THEN Threw
                  ELSE Returned(200, Envelope(ev, gen.rows, meta2, warning), TRUE)
          [] kind \in ListKinds ->
              LET meta == IF ~hasToken
                          THEN [meta0 EXCEPT !.source = "mock", !.reason = "fallback",
                                             !.fallback = "missing-token"]
                          ELSE meta0
              IN  Returned(200, Envelope(ev, <<>>, meta, ""), FALSE)
          [] OTHER ->
              LET meta == [meta0 EXCEPT !.source = "mock", !.reason = "unsupported",
                                        !.fallback = "unsupported-kind"]
                  stub == [message |-> "data not implemented", kind |-> kind,
                           symbol |-> rawSymbol]
              IN  Returned(200, Envelope(ev, stub, meta,
                                         "Requested data type is not implemented."), FALSE)

\* The Math.random() draws a completion reads
randomsFor(ev) ==
    IF normaliseKind(ev.kind) = K_intraday_latest THEN Randoms ELSE {NoRandom}

\* The handler from its entry to its first await (or to its return)
TiingoReceive ==
    /\ hImpl = "tiingo"
    /\ hPc = "idle"
    /\ \E ev \in Events : \E rnd \in randomsFor(ev) :
       /\ hEvent' = ev
       /\ LET rawSymbol == trim(nullish(ev.symbol, <<>>))
              kind == normaliseKind(ev.kind)
              hasToken == tokenOf(hEnvKey) # <<>>
          IN  IF ev.httpMethod = "OPTIONS"
              THEN /\ hOut' = Returned(200, EmptyBody, FALSE)
                   /\ hPc' = "done"
                   /\ UNCHANGED hFetches
              ELSE IF rawSymbol = <<>>
              THEN /\ hOut' = Returned(400, ErrorBody("Missing symbol parameter"), FALSE)
                   /\ hPc' = "done"
                   /\ UNCHANGED hFetches
              ELSE IF kind \in FetchKinds /\ hasToken
              THEN IF kind = K_eod /\ ~dateValid(hNow - tiingoEodLimit(ev))
                   THEN \* startDate.toISOString() throws inside the try: no fetch
                        LET out == tiingoComplete(ev, hEnvKey, hNow,
                                                  Caught("Invalid time value"), rnd)
                        IN  /\ hOut' = out
                            /\ hPc' = IF out.threw THEN "thrown" ELSE "done"
                            /\ UNCHANGED hFetches
                   ELSE /\ hFetches' = hFetches + 1
                        /\ hPc' = "fetch"
                        /\ UNCHANGED hOut
              ELSE LET out == tiingoComplete(ev, hEnvKey, hNow, Caught(""), rnd)
                   IN  /\ hOut' = out
                       /\ hPc' = IF out.threw THEN "thrown" ELSE "done"
                       /\ UNCHANGED hFetches
    /\ UNCHANGED <<hImpl, hEnvKey, hNow, hResp>>
    /\ UNCHANGED <<clientVars, envVars, utilVars>>

\* The provider: the awaited fetch rejects, or resolves to a response whose
\* body then parses or not
UpstreamSettles ==
    /\ hPc = "fetch"
    /\ \E u \in Settlements \cup
                 (IF normaliseKind(hEvent.kind) = K_intraday_latest
                  THEN QuoteSettlements ELSE {}) : hResp' = u
    /\ hPc' = "settled"
    /\ UNCHANGED <<hImpl, hEnvKey, hNow, hEvent, hFetches, hOut>>
    /\ UNCHANGED <<clientVars, envVars, utilVars>>

\* The handler from the settled fetch to its return
TiingoResume ==
    /\ hImpl = "tiingo"
    /\ hPc = "settled"
    /\ \E rnd \in IF tiingoTry(hEvent, hResp).ok THEN {NoRandom} ELSE randomsFor(hEvent) :
        LET out == tiingoComplete(hEvent, hEnvKey, hNow, tiingoTry(hEvent, hResp), rnd)
        IN  /\ hOut' = out
            /\ hPc' = IF out.threw THEN "thrown" ELSE "done"
    /\ UNCHANGED <<hImpl, hEnvKey, hNow, hEvent, hFetches, hResp>>
    /\ UNCHANGED <<clientVars, envVars, utilVars>>

-----------------------------------------------------------------------------
(* netlify/functions/tiingo-data.js: handler *)

\* Math.min(parseInt(event.queryStringParameters?.limit) || dflt, max)
dataLimit(ev, dflt, max) ==
    Min(orDefault(IF ev.limit.has THEN parseInt(ev.limit.s) ELSE NaN, dflt), max)

\* a || 0 for a field value
orZero(a) == IF truthy(a) THEN a.n ELSE 0

\* (quote.last - quote.prevClose) / quote.prevClose * 100; den = 0 stands for NaN
dataChangePercent(quote) ==
    LET last == field(quote, "last")
        prevClose == field(quote, "prevClose")
    IN  IF ~truthy(prevClose) THEN [num |-> 0, den |-> 1]
        ELSE IF last.k = "undefined" THEN [num |-> 0, den |-> 0]
        ELSE [num |-> (last.n - prevClose.n) * 100, den |-> prevClose.n]

dataQuote(ev, quote) ==
    [symbol |-> toUpperCase(ev.symbol.s),
     price |-> IF truthy(field(quote, "last")) THEN field(quote, "last").n
               ELSE orZero(field(quote, "tngoLast")),
     previousClose |-> orZero(field(quote, "prevClose")),
     change |-> orZero(field(quote, "last")) - orZero(field(quote, "prevClose")),
     changePercent |-> dataChangePercent(quote),
     volume |-> orZero(field(quote, "volume"))]

dataIntradayRow(item) ==
    [timestamp |-> field(item, "date"), open |-> field(item, "open"),
     high |-> field(item, "high"), low |-> field(item, "low"),
     close |-> field(item, "close"), volume |-> field(item, "volume")]

dataEodRow(item) ==
    [date |-> field(item, "date"), open |-> field(item, "open"),
     high |-> field(item, "high"), low |-> field(item, "low"),
     close |-> field(item, "close"), volume |-> field(item, "volume"),
     adjClose |-> field(item, "adjClose")]

\* The 200 response; kind is the raw query parameter
dataEnvelope(ev, data, now) ==
    [t |-> "envelope",
     symbol |-> toUpperCase(ev.symbol.s),
     data |-> data,
     meta |-> [source |-> "live", timestamp |-> now, kind |-> ev.kind]]

\* The catch block answering 200 with the error body
dataErrorAsOk(msg) == Returned(200, ErrorBody(msg), FALSE)
dataError(msg) == Returned(500, ErrorBody(msg), FALSE)

\* The try block of a fetching kind after the fetch settled
dataComplete(ev, u, now) ==
    LET rawData == u.value
        isArr == rawData.t = "array"
    IN  IF u.rejected THEN dataError("fetch failed")
        ELSE IF ~u.parses THEN dataError("Unexpected token in JSON")
        ELSE IF ~u.ok THEN dataError("Tiingo API error: status")
        ELSE IF ev.kind.s = K_intraday_latest
        THEN LET hasQuote == IF isArr
                             THEN rawData.items # <<>> /\ rawData.items[1].t # "null"
                             ELSE rawData.t \in {"object", "string"}
                 quote == IF isArr THEN rawData.items[1]
                          ELSE IF rawData.t = "object" THEN rawData.obj
                          ELSE [t |-> "string"]
             IN  IF ~hasQuote THEN dataError("No data returned from Tiingo")
                 ELSE Returned(200, dataEnvelope(ev, <<dataQuote(ev, quote)>>, now), FALSE)
        ELSE LET limit == IF ev.kind.s = K_intraday THEN dataLimit(ev, 150, 300)
                          ELSE dataLimit(ev, 180, 365)
                 cut == IF isArr THEN sliceFrom(rawData.items, 0 - limit) ELSE <<>>
             IN  IF \E i \in 1..Len(cut) : cut[i].t = "null"
                 THEN dataError("Cannot read properties of null")
                 ELSE Returned(200,
                        dataEnvelope(ev,
                            [i \in 1..Len(cut) |->
                                IF ev.kind.s = K_intraday THEN dataIntradayRow(cut[i])
                                ELSE dataEodRow(cut[i])],
                            now),
                        FALSE)

\* The handler from its entry to its first await (or to its return)
DataReceive ==
    /\ hImpl = "tiingo-data"
    /\ hPc = "idle"
    /\ \E ev \in Events :
       /\ hEvent' = ev
       /\ LET hasSymbol == ev.symbol.has /\ ev.symbol.s # <<>>
              hasToken == tokenOf(hEnvKey) # <<>>
              fetches == ev.kind.has /\ ev.kind.s \in FetchKinds
          IN  IF ev.httpMethod = "OPTIONS"
              THEN /\ hOut' = Returned(200, EmptyBody, FALSE)
                   /\ hPc' = "done"
                   /\ UNCHANGED hFetches
              ELSE IF ~hasSymbol
              THEN /\ hOut' = Returned(400, ErrorBody("Missing symbol parameter"), FALSE)
                   /\ hPc' = "done"
                   /\ UNCHANGED hFetches
              ELSE IF ~hasToken
              THEN /\ hOut' = dataError("TIINGO_KEY not configured")
                   /\ hPc' = "done"
                   /\ UNCHANGED hFetches
              ELSE IF fetches
              THEN IF ev.kind.s = K_eod /\ ~dateValid(hNow - dataLimit(ev, 180, 365))
                   THEN \* toISOString() throws while the URL is built: caught, no fetch
                        /\ hOut' = dataError("Invalid time value")
                        /\ hPc' = "done"
                        /\ UNCHANGED hFetches
                   ELSE /\ hFetches' = hFetches + 1
                        /\ hPc' = "fetch"
                        /\ UNCHANGED hOut
              ELSE IF ev.kind.has /\ ev.kind.s \in ListKinds
              THEN /\ hOut' = Returned(200, dataEnvelope(ev, <<>>, hNow), FALSE)
                   /\ hPc' = "done"
                   /\ UNCHANGED hFetches
              ELSE /\ hOut' = Returned(200,
                                 dataEnvelope(ev, [message |-> "data not yet implemented",
                                                   kind |-> ev.kind, symbol |-> ev.symbol.s],
                                              hNow),
                                 FALSE)
                   /\ hPc' = "done"
                   /\ UNCHANGED hFetches
    /\ UNCHANGED <<hImpl, hEnvKey, hNow, hResp>>
    /\ UNCHANGED <<clientVars, envVars, utilVars>>

\* The handler from the settled fetch to its return
DataResume ==
    /\ hImpl = "tiingo-data"
    /\ hPc = "settled"
    /\ hOut' = dataComplete(hEvent, hResp, hNow)
    /\ hPc' = "done"
    /\ UNCHANGED <<hImpl, hEnvKey, hNow, hEvent, hFetches, hResp>>
    /\ UNCHANGED <<clientVars, envVars, utilVars>>

-----------------------------------------------------------------------------
(* tiingo-client.js: SimpleCache *)

\* JSON values the provider returns; JsUndefined is a cache miss
JsUndefined == [json |-> "undefined", id |-> 0]
JsonValues == {[json |-> "object", id |-> 1], [json |-> "null", id |-> 0]}
\* if (value)
truthyJson(v) == v.json \notin {"undefined", "null"}

NoEntry == [has |-> FALSE, value |-> JsUndefined, expiresAt |-> 0]

\* set(key, value, ttl) that keeps an entry the map already has
cacheSetIfAbsent(c, key, value, ttl, now) ==
    IF c[key].has THEN c
    ELSE [c EXCEPT ![key] = [has |-> TRUE, value |-> value, expiresAt |-> now + ttl]]

\* SimpleCache.set(key, value, ttl)
cacheSet(c, key, value, ttl, now) ==
    [c EXCEPT ![key] = [has |-> TRUE, value |-> value, expiresAt |-> now + ttl]]

\* get(key) that renews the entry it returns: entry.expiresAt = Date.now() + ttl
cacheGetRenewing(c, key, now) ==
    IF ~c[key].has THEN [value |-> JsUndefined, cache |-> c]
    ELSE IF now > c[key].expiresAt
    THEN [value |-> JsUndefined, cache |-> [c EXCEPT ![key] = NoEntry]]
    ELSE [value |-> c[key].value, cache |-> [c EXCEPT ![key].expiresAt = now + 2]]

\* SimpleCache.get(key): the value read and the map afterwards
cacheGet(c, key, now) ==
    IF ~c[key].has THEN [value |-> JsUndefined, cache |-> c]
    ELSE IF now > c[key].expiresAt
    THEN [value |-> JsUndefined, cache |-> [c EXCEPT ![key] = NoEntry]]
    ELSE [value |-> c[key].value, cache |-> c]

\* SimpleCache.delete(key)
cacheDelete(c, key) == [c EXCEPT ![key] = NoEntry]

\* SimpleCache.clear()
cacheClear(c) == [k \in DOMAIN c |-> NoEntry]

\* size() without the clean-up: return this.cache.size
cacheSizeUnpurged(c, now) ==
    [size |-> Cardinality({k \in DOMAIN c : c[k].has}), cache |-> c]

\* SimpleCache.size(): the size returned and the map afterwards
cacheSize(c, now) ==
    LET kept == [k \in DOMAIN c |-> IF c[k].has /\ now > c[k].expiresAt THEN NoEntry ELSE c[k]]
    IN  [size |-> Cardinality({k \in DOMAIN c : kept[k].has}), cache |-> kept]

-----------------------------------------------------------------------------
(* tiingo-client.js: RateLimiter *)

\* new RateLimiter(maxRequests, windowMs) at time now
newRateLimiter(maxRequests, windowMs, now) ==
    [maxRequests |-> maxRequests, windowMs |-> windowMs,
     tokens |-> maxRequests, lastRefill |-> now]

\* acquire() that hands out a token when the bucket holds none: tokens >= 0
acquireAtZero(l, now) ==
    LET timePassed == now - l.lastRefill
        tokensToAdd == (timePassed * l.maxRequests) \div l.windowMs
        tokens == Min(l.maxRequests, l.tokens + tokensToAdd)
    IN  IF tokens >= 0
        THEN [granted |-> TRUE,
              limiter |-> [l EXCEPT !.tokens = tokens - 1, !.lastRefill = now]]
        ELSE [granted |-> FALSE,
              limiter |-> [l EXCEPT !.tokens = tokens, !.lastRefill = now]]

\* The synchronous part of acquire(): refill, then take a token if there is one.
\* Math.floor((timePassed / windowMs) * maxRequests) is computed on integers.
acquire(l, now) ==
    LET timePassed == now - l.lastRefill
        tokensToAdd == (timePassed * l.maxRequests) \div l.windowMs
        tokens == Min(l.maxRequests, l.tokens + tokensToAdd)
    IN  IF tokens > 0
        THEN [granted |-> TRUE,
              limiter |-> [l EXCEPT !.tokens = tokens - 1, !.lastRefill = now]]
        ELSE [granted |-> FALSE,
              limiter |-> [l EXCEPT !.tokens = tokens, !.lastRefill = now]]

\* const waitTime = this.windowMs / this.maxRequests
waitTime(l) == l.windowMs \div l.maxRequests

-----------------------------------------------------------------------------
(* tiingo-client.js: TiingoClient.makeRequest *)

\* Options of new TiingoClient(options), in clock ticks
ClientOptions ==
    {[timeout |-> 2, maxRetries |-> 1, retryDelay |-> 1, maxRequests |-> m,
      windowMs |-> 2 * m, enableCache |-> ec, enableRateLimit |-> er] :
        m \in {1, 2}, ec \in BOOLEAN, er \in BOOLEAN}

\* Requests: endpoint and params; params is a function of its parameter names
NoParams == [n \in {} |-> ""]
Requests ==
    {[endpoint |-> "/iex/AAPL", params |-> NoParams],
     [endpoint |-> "/tiingo/daily/AAPL/prices",
      params |-> [n \in {"startDate", "endDate"} |-> IF n = "startDate" THEN "2024-01-01"
                                                      ELSE "2024-02-01"]]}

\* The parameter names of the model as Array.prototype.sort() orders them
SortedNames == <<"endDate", "resampleFreq", "startDate">>

\* Object.keys(params).sort().map(key => `${key}=${params[key]}`).join('&'),
\* as the sequence of its pieces
RECURSIVE sortedParams(_, _)
sortedParams(params, names) ==
    IF names = <<>> THEN <<>>
    ELSE LET rest == sortedParams(params, Tail(names))
         IN  IF Head(names) \notin DOMAIN params THEN rest
             ELSE <<Head(names), "=", params[Head(names)]>>
                  \o (IF rest = <<>> THEN <<>> ELSE <<"&">> \o rest)

\* getCacheKey(endpoint, params): `${endpoint}?${sortedParams}`
getCacheKey(endpoint, params) == <<endpoint, "?">> \o sortedParams(params, SortedNames)
CacheKeys == {getCacheKey(r.endpoint, r.params) : r \in Requests}
\* new Map()
EmptyCache == [k \in CacheKeys |-> NoEntry]

\* Options of one makeRequest call
RequestOptions ==
    {[cacheTtl |-> 2, skipCache |-> sc, skipRateLimit |-> FALSE] : sc \in BOOLEAN}

\* The text of an HTTP status
statusText(status) ==
    CASE status = 400 -> <<"4","0","0">> [] status = 401 -> <<"4","0","1">> [] status = 403 -> <<"4","0","3">>
      [] status = 404 -> <<"4","0","4">> [] status = 429 -> <<"4","2","9">> [] status = 500 -> <<"5","0","0">>
      [] OTHER -> <<"2","0","0">>

ErrorStatuses == {404, 500}
\* Bodies of error responses; the last is what response.text().catch() gives
ErrorTexts == {<<"c","o","d","e"," ","4","0","0","1">>, <<"U","n","k","n","o","w","n"," ","e","r","r","o","r">>}
\* error.message of a rejected fetch, of an aborted fetch, of a rejected json()
MsgNetwork == <<"f","e","t","c","h"," ","f","a","i","l","e","d">>
MsgAborted == <<"T","h","i","s"," ","o","p","e","r","a","t","i","o","n"," ","w","a","s"," ","a","b","o","r","t","e","d">>
MsgParse == <<"U","n","e","x","p","e","c","t","e","d"," ","t","o","k","e","n"," ","<"," ","i","n"," ","J","S","O","N">>
httpMessage(status, text) == <<"T","i","i","n","g","o"," ","A","P","I"," ","e","r","r","o","r"," ">> \o statusText(status) \o <<":"," ">> \o text

\* Don't retry on client errors (4xx)
isClientError(message) ==
    \/ includes(message, <<"4","0","0">>) \/ includes(message, <<"4","0","1">>)
    \/ includes(message, <<"4","0","3">>) \/ includes(message, <<"4","0","4">>)

\* A delay that grows by retryDelay with every attempt: attempt + 1
pow2Linear(n) == n + 1

\* Math.pow(2, attempt)
RECURSIVE pow2(_)
pow2(n) == IF n = 0 THEN 1 ELSE 2 * pow2(n - 1)

\* The calls in progress: one makeRequest (or acquire) at a time
CallIds == {1}

IdleCall ==
    [pc |-> "idle", op |-> "", key |-> <<>>, ropts |-> [cacheTtl |-> 0,
     skipCache |-> FALSE, skipRateLimit |-> FALSE],
     attempt |-> 0, timerAt |-> -1, wakeAt |-> -1, attemptStart |-> -1,
     status |-> 0, result |-> JsUndefined, lastError |-> <<>>, lastFailure |-> "",
     fromCache |-> FALSE, fetches |-> 0, acquires |-> 0, waited |-> FALSE,
     startedAt |-> -1, sawEntry |-> NoEntry, slept |-> <<>>]

\* a fetch is issued for the current attempt: the abort timer is armed
issueFetch(cr, now, opt) ==
    [cr EXCEPT !.pc = "fetching", !.timerAt = now + opt.timeout, !.attemptStart = now,
               !.fetches = @ + 1]

\* the catch block of an attempt, and what follows it
catchError(cr, message, failure, now, opt) ==
    LET c1 == [cr EXCEPT !.lastError = message, !.lastFailure = failure]
    IN  IF isClientError(message) THEN [c1 EXCEPT !.pc = "thrown"]
        ELSE IF cr.attempt < opt.maxRetries
        THEN [c1 EXCEPT !.pc = "sleeping",
                        !.wakeAt = now + opt.retryDelay * pow2(cr.attempt),
                        !.slept = Append(@, opt.retryDelay * pow2(cr.attempt))]
        ELSE [c1 EXCEPT !.pc = "thrown"]

\* The most makeRequest calls, the most direct acquire() calls and the last
\* clock tick in one behaviour
MaxStarts == 2
MaxAcquires == 3
MaxTime == 4

useCache(opt, ro) == opt.enableCache /\ ~ro.skipCache
useRateLimit(opt, ro) == opt.enableRateLimit /\ ~ro.skipRateLimit

\* makeRequest(endpoint, params, options) from its entry to its first suspension
StartRequest(c, r, ro) ==
    /\ call[c].pc \in {"idle", "returned", "thrown"}
    /\ started < MaxStarts
    /\ started' = started + 1
    /\ LET key == getCacheKey(r.endpoint, r.params)
           got == cacheGet(cache, key, clock)
           base == [IdleCall EXCEPT !.op = "makeRequest", !.key = key, !.ropts = ro,
                                    !.startedAt = clock, !.sawEntry = cache[key]]
           a == acquire(limiter, clock)
       IN  IF useCache(copt, ro) /\ truthyJson(got.value)
           THEN /\ call' = [call EXCEPT ![c] = [base EXCEPT !.pc = "returned",
                                                            !.result = got.value,
                                                            !.fromCache = TRUE]]
                /\ cache' = got.cache
                /\ UNCHANGED <<limiter, grantLog>>
           ELSE /\ cache' = IF useCache(copt, ro) THEN got.cache ELSE cache
                /\ IF useRateLimit(copt, ro)
                   THEN /\ limiter' = a.limiter
                        /\ IF a.granted
                           THEN /\ call' = [call EXCEPT ![c] =
                                     issueFetch([base EXCEPT !.acquires = 1], clock, copt)]
                                /\ grantLog' = Append(grantLog, [at |-> clock, waited |-> FALSE])
                           ELSE /\ call' = [call EXCEPT ![c] =
                                     [base EXCEPT !.pc = "acquireWait", !.waited = TRUE,
                                                  !.wakeAt = clock + waitTime(limiter)]]
                                /\ UNCHANGED grantLog
                   ELSE /\ call' = [call EXCEPT ![c] = issueFetch(base, clock, copt)]
                        /\ UNCHANGED <<limiter, grantLog>>
    /\ UNCHANGED <<clock, copt>>
    /\ UNCHANGED <<handlerVars, envVars, utilVars>>

\* A direct call of rateLimiter.acquire()
AcquireCall(c) ==
    /\ call[c].pc \in {"idle", "returned"}
    /\ started < MaxAcquires
    /\ started' = started + 1
    /\ LET a == acquire(limiter, clock)
           base == [IdleCall EXCEPT !.op = "acquire", !.startedAt = clock]
       IN  /\ limiter' = a.limiter
           /\ IF a.granted
              THEN /\ call' = [call EXCEPT ![c] = [base EXCEPT !.pc = "returned",
                                                               !.acquires = 1]]
                   /\ grantLog' = Append(grantLog, [at |-> clock, waited |-> FALSE])
              ELSE /\ call' = [call EXCEPT ![c] =
                        [base EXCEPT !.pc = "acquireWait", !.waited = TRUE,
                                     !.wakeAt = clock + waitTime(limiter)]]
                   /\ UNCHANGED grantLog
    /\ UNCHANGED <<clock, copt, cache>>
    /\ UNCHANGED <<handlerVars, envVars, utilVars>>

\* The setTimeout of acquire() fired: return this.acquire()
AcquirePoll(c) ==
    /\ call[c].pc = "acquireWait"
    /\ clock >= call[c].wakeAt
    /\ LET a == acquire(limiter, clock)
           cr == call[c]
       IN  /\ limiter' = a.limiter
           /\ IF a.granted
              THEN /\ call' = [call EXCEPT ![c] =
                        IF cr.op = "makeRequest"
                        THEN issueFetch([cr EXCEPT !.acquires = @ + 1], clock, copt)
                        ELSE [cr EXCEPT !.pc = "returned", !.acquires = @ + 1]]
                   /\ grantLog' = Append(grantLog, [at |-> clock, waited |-> TRUE])
              ELSE /\ call' = [call EXCEPT ![c].wakeAt = clock + waitTime(limiter)]
                   /\ UNCHANGED grantLog
    /\ UNCHANGED <<clock, copt, cache, started>>
    /\ UNCHANGED <<handlerVars, envVars, utilVars>>

\* fetch resolved with a Response (its headers): clearTimeout(timeoutId)
FetchResponds(c, status) ==
    /\ call[c].pc = "fetching"
    /\ call' = [call EXCEPT ![c].pc = IF status \in 200..299 THEN "readingJson"
                                      ELSE "readingText",
                            ![c].status = status,
                            ![c].timerAt = -1]
    /\ UNCHANGED <<clock, copt, cache, limiter, started, grantLog>>
    /\ UNCHANGED <<handlerVars, envVars, utilVars>>

\* A catch block that stores the error under the key of the request:
\* this.cache.set(cacheKey, error, cacheTtl)
FetchRejectsAndCaches(c) ==
    /\ call[c].pc = "fetching"
    /\ call' = [call EXCEPT ![c] = catchError(call[c], MsgNetwork, "network", clock, copt)]
    /\ cache' = IF useCache(copt, call[c].ropts)
                THEN [cache EXCEPT ![call[c].key] =
                        [has |-> TRUE, value |-> [json |-> "object", id |-> 1],
                         expiresAt |-> clock + call[c].ropts.cacheTtl]]
                ELSE cache
    /\ UNCHANGED <<clock, copt, limiter, started, grantLog>>
    /\ UNCHANGED <<handlerVars, envVars, utilVars>>

\* fetch rejected with a network error
FetchRejects(c) ==
    /\ call[c].pc = "fetching"
    /\ call' = [call EXCEPT ![c] = catchError(call[c], MsgNetwork, "network", clock, copt)]
    /\ UNCHANGED <<clock, copt, cache, limiter, started, grantLog>>
    /\ UNCHANGED <<handlerVars, envVars, utilVars>>

\* The abort timer fired while the fetch was pending: controller.abort()
TimeoutFires(c) ==
    /\ call[c].pc = "fetching"
    /\ clock >= call[c].timerAt
    /\ call' = [call EXCEPT ![c] = catchError(call[c], MsgAborted, "timeout", clock, copt)]
    /\ UNCHANGED <<clock, copt, cache, limiter, started, grantLog>>
    /\ UNCHANGED <<handlerVars, envVars, utilVars>>

\* response.text() of a non-OK response settled: throw new Error(...)
TextRead(c, text) ==
    /\ call[c].pc = "readingText"
    /\ call' = [call EXCEPT ![c] =
            catchError(call[c], httpMessage(call[c].status, text), "http", clock, copt)]
    /\ UNCHANGED <<clock, copt, cache, limiter, started, grantLog>>
    /\ UNCHANGED <<handlerVars, envVars, utilVars>>

\* response.json() resolved: cache the value and return it
JsonRead(c, v) ==
    /\ call[c].pc = "readingJson"
    /\ cache' = IF useCache(copt, call[c].ropts)
                THEN cacheSet(cache, call[c].key, v, call[c].ropts.cacheTtl, clock)
                ELSE cache
    /\ call' = [call EXCEPT ![c].pc = "returned", ![c].result = v]
    /\ UNCHANGED <<clock, copt, limiter, started, grantLog>>
    /\ UNCHANGED <<handlerVars, envVars, utilVars>>

\* response.json() rejected
JsonFails(c) ==
    /\ call[c].pc = "readingJson"
    /\ call' = [call EXCEPT ![c] = catchError(call[c], MsgParse, "parse", clock, copt)]
    /\ UNCHANGED <<clock, copt, cache, limiter, started, grantLog>>
    /\ UNCHANGED <<handlerVars, envVars, utilVars>>

\* The backoff sleep is over: the next attempt
SleepEnds(c) ==
    /\ call[c].pc = "sleeping"
    /\ clock >= call[c].wakeAt
    /\ call' = [call EXCEPT ![c] = issueFetch([call[c] EXCEPT !.attempt = @ + 1], clock, copt)]
    /\ UNCHANGED <<clock, copt, cache, limiter, started, grantLog>>
    /\ UNCHANGED <<handlerVars, envVars, utilVars>>

\* Time passes; a timer that is due fires before the clock moves on
Tick ==
    /\ clock < MaxTime
    /\ \A c \in DOMAIN call :
          /\ call[c].pc \in {"acquireWait", "sleeping"} => call[c].wakeAt > clock
          /\ call[c].pc = "fetching" => call[c].timerAt > clock
    /\ clock' = clock + 1
    /\ UNCHANGED <<copt, cache, limiter, call, started, grantLog>>
    /\ UNCHANGED <<handlerVars, envVars, utilVars>>


\* Time passes, counted from the present: the clock stays where it is and
\* every time the limiter and the callers remember moves one tick into the
\* past. A refill time older than one window refills the bucket whole, so it
\* is kept at one window. A timer that is due fires before time moves on.
TimePasses ==
    /\ \A c \in DOMAIN call :
          call[c].pc \in {"acquireWait", "sleeping"} => call[c].wakeAt > clock
    /\ limiter' = [limiter EXCEPT !.lastRefill = Max(@ - 1, clock - limiter.windowMs)]
    /\ call' = [c \in DOMAIN call |->
                  IF call[c].pc \in {"acquireWait", "sleeping"}
                  THEN [call[c] EXCEPT !.wakeAt = @ - 1]
                  ELSE call[c]]
    /\ UNCHANGED <<clock, copt, cache, started, grantLog>>
    /\ UNCHANGED <<handlerVars, envVars, utilVars>>
-----------------------------------------------------------------------------
(* netlify/functions/env-check.js: the credential resolver *)

TIINGO_TOKEN_ENV_KEYS ==
    <<<<"T","I","I","N","G","O","_","K","E","Y">>,
      <<"T","I","I","N","G","O","_","A","P","I","_","K","E","Y">>,
      <<"T","I","I","N","G","O","_","A","P","I","_","T","O","K","E","N">>,
      <<"T","I","I","N","G","O","_","T","O","K","E","N">>,
      <<"T","I","I","N","G","O","_","A","C","C","E","S","S","_","T","O","K","E","N">>,
      <<"T","I","I","N","G","O","_","A","C","C","E","S","S","_","K","E","Y">>,
      <<"T","I","I","N","G","O","_","A","U","T","H","_","T","O","K","E","N">>,
      <<"T","I","I","N","G","O","_","S","E","C","R","E","T">>,
      <<"T","I","I","N","G","O","_","A","P","I","_","S","E","C","R","E","T">>,
      <<"R","E","A","C","T","_","A","P","P","_","T","I","I","N","G","O","_","K","E","Y">>,
      <<"R","E","A","C","T","_","A","P","P","_","T","I","I","N","G","O","_","T","O","K","E","N">>,
      <<"R","E","A","C","T","_","A","P","P","_","A","P","I","_","K","E","Y">>,
      <<"V","I","T","E","_","T","I","I","N","G","O","_","K","E","Y">>,
      <<"V","I","T","E","_","T","I","I","N","G","O","_","T","O","K","E","N">>,
      <<"V","I","T","E","_","A","P","P","_","T","I","I","N","G","O","_","K","E","Y">>,
      <<"V","I","T","E","_","A","P","P","_","T","I","I","N","G","O","_","T","O","K","E","N">>>>

AlnumChars == LowerChars \cup UpperChars \cup DigitChars
\* [a-z0-9_-] under the i flag
TokenChars == AlnumChars \cup {"_", "-"}

\* process.env[key]: the value of the first (only) entry of that name, or None
RECURSIVE envLookup(_, _)
envLookup(e, key) ==
    IF e = <<>> THEN None
    ELSE IF Head(e)[1] = key THEN Some(Head(e)[2])
    ELSE envLookup(Tail(e), key)

readEnvValue(e, key) ==
    LET raw == envLookup(e, key)
    IN  IF ~raw.has THEN <<>> ELSE trim(raw.s)

\* /^(true|false|null|undefined|yes|no|0|1)$/i
disallowedLiterals(s) ==
    toLowerCase(s) \in {<<"t","r","u","e">>, <<"f","a","l","s","e">>, <<"n","u","l","l">>, <<"u","n","d","e","f","i","n","e","d">>, <<"y","e","s">>, <<"n","o">>,
                        <<"0">>, <<"1">>}

\* trimmed.split(/[^a-z0-9_-]+/i) without its empty strings: the maximal runs
\* of token characters, in order
tokenParts(s) ==
    LET begins == {i \in 1..Len(s) :
                     s[i] \in TokenChars /\ (i = 1 \/ s[i - 1] \notin TokenChars)}
        finish(i) == CHOOSE j \in i..Len(s) :
                        /\ \A k \in i..j : s[k] \in TokenChars
                        /\ (j = Len(s) \/ s[j + 1] \notin TokenChars)
        nth(n) == CHOOSE i \in begins : Cardinality({x \in begins : x < i}) = n - 1
    IN  [n \in 1..Cardinality(begins) |-> SubSeq(s, nth(n), finish(nth(n)))]

\* trimmed.match(/[a-z0-9][a-z0-9_-]{22,}[a-z0-9]/i): the leftmost match, taken
\* greedily; <<>> when there is none
tokenChunkPattern(s) ==
    LET ends(i) == {j \in i..Len(s) :
                       /\ j - i + 1 >= 24
                       /\ s[j] \in AlnumChars
                       /\ \A k \in i..j : s[k] \in TokenChars}
        startsAt == {i \in 1..Len(s) : s[i] \in AlnumChars /\ ends(i) # {}}
    IN  IF startsAt = {} THEN <<>>
        ELSE LET i == CHOOSE x \in startsAt : \A y \in startsAt : x <= y
                 j == CHOOSE x \in ends(i) : \A y \in ends(i) : x >= y
             IN  SubSeq(s, i, j)

extractTokenCandidate(value) ==
    LET trimmed == trim(value)
        parts == tokenParts(trimmed)
        fits == {i \in 1..Len(parts) : Len(parts[i]) >= 24 /\ Len(parts[i]) <= 128}
    IN  IF trimmed = <<>> \/ disallowedLiterals(trimmed) THEN <<>>
        ELSE IF Len(trimmed) >= 24 /\ Len(trimmed) <= 128
                /\ \A i \in 1..Len(trimmed) : trimmed[i] \in TokenChars
        THEN trimmed
        ELSE IF fits # {} THEN parts[CHOOSE i \in fits : \A j \in fits : i <= j]
        ELSE tokenChunkPattern(trimmed)

EmptyDetail == [key |-> <<>>, token |-> <<>>, source |-> ""]

\* buildDetail(key, value, source): null is EmptyDetail
buildDetail(key, value, source) ==
    LET token == extractTokenCandidate(value)
    IN  IF token # <<>> THEN [key |-> key, token |-> token, source |-> source]
        ELSE EmptyDetail

\* A resolver that scans the values of the environment before it tries the
\* lower-cased names
scanBeforeLowercase(e) ==
    [i \in 1..Len(TIINGO_TOKEN_ENV_KEYS) |->
        [key |-> TIINGO_TOKEN_ENV_KEYS[i],
         value |-> readEnvValue(e, TIINGO_TOKEN_ENV_KEYS[i]),
         source |-> "env:preferred"]]
    \o [i \in 1..Len(e) |-> [key |-> e[i][1], value |-> e[i][2], source |-> "env:scan"]]
    \o [i \in 1..Len(TIINGO_TOKEN_ENV_KEYS) |->
        [key |-> toLowerCase(TIINGO_TOKEN_ENV_KEYS[i]),
         value |-> readEnvValue(e, toLowerCase(TIINGO_TOKEN_ENV_KEYS[i])),
         source |-> "env:lowercase"]]
    \o [i \in 1..Len(e) |-> [key |-> e[i][1], value |-> e[i][1],
                             source |-> "env:name-as-token"]]

\* The (key, value, source) triples the four loops of getTiingoTokenDetail
\* try, in the order they try them
detailCandidates(e) ==
    [i \in 1..Len(TIINGO_TOKEN_ENV_KEYS) |->
        [key |-> TIINGO_TOKEN_ENV_KEYS[i],
         value |-> readEnvValue(e, TIINGO_TOKEN_ENV_KEYS[i]),
         source |-> "env:preferred"]]
    \o [i \in 1..Len(TIINGO_TOKEN_ENV_KEYS) |->
        [key |-> toLowerCase(TIINGO_TOKEN_ENV_KEYS[i]),
         value |-> readEnvValue(e, toLowerCase(TIINGO_TOKEN_ENV_KEYS[i])),
         source |-> "env:lowercase"]]
    \o [i \in 1..Len(e) |-> [key |-> e[i][1], value |-> e[i][2], source |-> "env:scan"]]
    \o [i \in 1..Len(e) |-> [key |-> e[i][1], value |-> e[i][1],
                             source |-> "env:name-as-token"]]

\* The first candidate for which buildDetail is not null
RECURSIVE firstDetail(_)
firstDetail(cands) ==
    IF cands = <<>> THEN EmptyDetail
    ELSE LET d == buildDetail(Head(cands).key, Head(cands).value, Head(cands).source)
         IN  IF d # EmptyDetail THEN d ELSE firstDetail(Tail(cands))

getTiingoTokenDetail(e) == firstDetail(detailCandidates(e))

getTiingoToken(e) == getTiingoTokenDetail(e).token

isEnvPresent(e, key) == readEnvValue(e, key) # <<>>

\* Environments of the model
TokenA == <<"t","o","k","e","n","A","A","A","A","A","A","A","A","A","A","A","A","A","A","A","A","A","A","1">>
TokenB == <<"t","o","k","e","n","B","B","B","B","B","B","B","B","B","B","B","B","B","B","B","B","B","B","2">>
EnvNames == {<<"T","I","I","N","G","O","_","K","E","Y">>, <<"T","I","I","N","G","O","_","A","P","I","_","K","E","Y">>, <<"t","i","i","n","g","o","_","k","e","y">>, <<"t","i","i","n","g","o","_","t","o","k","e","n">>,
             <<"P","A","T","H">>, <<"m","i","s","p","l","a","c","e","d","T","O","K","E","N","-","0","1","2","3","4","5","6","7","8","9">>}
EnvValues == {TokenA, TokenB, <<>>, <<"s","h","o","r","t">>, <<" ","k","e","y","=">> \o TokenA \o <<";"," ">>}
\* The most variables an environment holds
MaxEnvVars == 2

\* process.env as the sequence of its entries, in Object.entries order: the
\* names of one environment are distinct
RECURSIVE EnvsOfLen(_)
EnvsOfLen(n) ==
    IF n = 0 THEN {<<>>}
    ELSE UNION {{Append(e, <<nm, v>>) :
                    nm \in EnvNames \ {e[i][1] : i \in 1..Len(e)}, v \in EnvValues} :
                e \in EnvsOfLen(n - 1)}

Envs == UNION {EnvsOfLen(n) : n \in 0..MaxEnvVars}

\* A call of getTiingoTokenDetail()
ResolveDetail ==
    /\ ePc = "start"
    /\ resolved' = getTiingoTokenDetail(env)
    /\ ePc' = "resolved"
    /\ UNCHANGED env
    /\ UNCHANGED <<handlerVars, clientVars, utilVars>>

-----------------------------------------------------------------------------
(* Series cut to a limit: tiingo-client.js getStockPrices / getIntradayPrices,
   utils/mock-tiingo.js sliceLimit / extractFromRecord *)

\* KIND_ALIASES[key], <<>> when the table has no such key
CanonicalKinds ==
    {<<"i","n","t","r","a","d","a","y","_","l","a","t","e","s","t">>, <<"i","n","t","r","a","d","a","y">>, <<"e","o","d">>, <<"n","e","w","s">>, <<"d","o","c","u","m","e","n","t","s">>, <<"f","i","l","i","n","g","s">>,
     <<"a","c","t","i","o","n","s">>, <<"f","u","n","d","a","m","e","n","t","a","l","s">>, <<"s","t","a","t","e","m","e","n","t","s">>, <<"o","v","e","r","v","i","e","w">>, <<"v","a","l","u","a","t","i","o","n">>}
KIND_ALIASES(key) ==
    IF key \in {<<"q","u","o","t","e">>, <<"q","u","o","t","e","s">>} THEN <<"i","n","t","r","a","d","a","y","_","l","a","t","e","s","t">>
    ELSE IF key \in CanonicalKinds THEN key
    ELSE <<>>

\* normaliseKind(kind) of utils/mock-tiingo.js; kind is an optional string
mockNormaliseKind(kind) ==
    LET key == toLowerCase(IF kind.has /\ kind.s # <<>> THEN kind.s ELSE <<"e","o","d">>)
    IN  IF KIND_ALIASES(key) # <<>> THEN KIND_ALIASES(key) ELSE <<"e","o","d">>

\* The largest limit passed to the helpers
MaxLimit == 4

\* if (Array.isArray(data) && limit) { data = data.slice(-limit); }
limitPrices(data, limit) ==
    IF data.t = "array" /\ truthy(limit)
    THEN [t |-> "array", items |-> sliceFrom(data.items, 0 - limit.n)]
    ELSE data

\* Number(value) of undefined, null or a number
toNumber(value) ==
    CASE value.k = "undefined" -> NaN
      [] value.k = "null" -> Num(0)
      [] OTHER -> Num(value.n)

\* record?.name of a bundled record; a section is absent, a list or an object
sectionOf(record, name) == IF name \in DOMAIN record THEN record[name] ELSE [t |-> "undefined"]

\* sliceLimit(items, limit, { fromEnd })
sliceLimit(items, limit, fromEnd) ==
    LET count == toNumber(limit)
    IN  IF items.t # "array" THEN <<>>
        ELSE IF count.nan \/ count.v <= 0 THEN items.items
        ELSE IF fromEnd THEN sliceFrom(items.items, 0 - count.v)
        ELSE SubSeq(items.items, 1, Min(count.v, Len(items.items)))

\* The limit option of a call
LimitValues ==
    {Undefined, Null, Number(0), Number(0 - 2)} \cup {Number(n) : n \in 1..MaxLimit}

\* What makeRequest resolves to: an array of bars, an object or null
PriceData ==
    {[t |-> "array", items |-> Bars(n)] : n \in 0..MaxRows}
    \cup {[t |-> "null"], [t |-> "object", obj |-> ErrorItem]}

\* A section of a bundled mock record: absent, or a list
MockSections == {[t |-> "undefined"]} \cup {[t |-> "array", items |-> Bars(n)] : n \in 0..MaxRows}
MockRecords == {[intraday |-> a, eod |-> b, news |-> a] : a, b \in MockSections}

IdleCut == [pc |-> "idle", fn |-> "", kind |-> <<>>, data |-> [t |-> "null"],
            limit |-> Undefined, out |-> [t |-> "null"]]
PriceCalls ==
    {[IdleCut EXCEPT !.pc = "resolved", !.fn = f, !.data = d, !.limit = l] :
        f \in {"getStockPrices", "getIntradayPrices"}, d \in PriceData, l \in LimitValues}
MockCalls ==
    {[IdleCut EXCEPT !.pc = "called", !.fn = "extractFromRecord", !.kind = k,
                     !.data = r, !.limit = l] :
        k \in {K_intraday, K_eod, K_news}, r \in MockRecords, l \in LimitValues}

\* getStockPrices from the point where makeRequest resolved to its return
GetStockPricesReturns ==
    /\ sCall.pc = "resolved" /\ sCall.fn = "getStockPrices"
    /\ sCall' = [sCall EXCEPT !.pc = "done", !.out = limitPrices(sCall.data, sCall.limit)]
    /\ UNCHANGED <<handlerVars, clientVars, envVars, mockVars, instVars>>

\* getIntradayPrices from the point where makeRequest resolved to its return
GetIntradayPricesReturns ==
    /\ sCall.pc = "resolved" /\ sCall.fn = "getIntradayPrices"
    /\ sCall' = [sCall EXCEPT !.pc = "done", !.out = limitPrices(sCall.data, sCall.limit)]
    /\ UNCHANGED <<handlerVars, clientVars, envVars, mockVars, instVars>>

-----------------------------------------------------------------------------
(* utils/mock-tiingo.js: getLatestQuote, computeValuationSnapshot.
   Numbers are counted in units of 0.0001. *)

Unit == 10000

AbsInt(n) == IF n < 0 THEN 0 - n ELSE n

\* Number((n / d).toFixed(...)) in units, rounded to a multiple of step units
\* (step 100 for toFixed(2), 1 for toFixed(4)); a tie goes away from zero
toFixedUnits(n, d, step) ==
    LET a == AbsInt(n)
        b == AbsInt(d)
        q == (2 * a + b * step) \div (2 * b * step)
    IN  IF (n < 0) = (d < 0) THEN q * step ELSE 0 - q * step

\* getLatestQuote(record); an object without fields when there is none
getLatestQuote(record) ==
    LET quote == sectionOf(record, "quote")
        intraday == sectionOf(record, "intraday")
        eod == sectionOf(record, "eod")
    IN  IF quote.t = "quote" THEN quote
        ELSE IF intraday.t = "array" /\ intraday.items # <<>>
        THEN intraday.items[Len(intraday.items)]
        ELSE IF eod.t = "array" /\ eod.items # <<>>
        THEN eod.items[Len(eod.items)]
        ELSE [t |-> "null"]

\* Number(value ?? 0) || 0
numberOrZero(value) == IF value.k = "number" THEN value.n ELSE 0
\* Number(value ?? 0) || null
numberOrNull(value) == IF truthy(value) THEN value ELSE Null

\* a ratio field: divisor ? Number((price / divisor).toFixed(2)) : null
ratioField(price, divisor) ==
    IF truthy(divisor)
    THEN LET p == numberOrZero(price)
             a == AbsInt(p)
             b == AbsInt(divisor.n)
             \* a / b = whole + (a % b) / b; only the second part needs rounding
             whole == (a \div b) * Unit
             part == toFixedUnits((a % b) * Unit, b, 100)
         IN  Number(IF (p < 0) = (divisor.n < 0) THEN whole + part ELSE 0 - (whole + part))
    ELSE Null

\* computeValuationSnapshot(record, symbol).valuation, and its price
computeValuationSnapshot(record) ==
    LET quote == getLatestQuote(record)
        fundamentals == sectionOf(record, "fundamentals")
        metrics == IF fundamentals.t = "object" THEN fundamentals.metrics
                   ELSE [t |-> "object"]
        latest == IF fundamentals.t = "object" THEN fundamentals.latest
                  ELSE [t |-> "object"]
        price == numberOrNull(coalesce(field(quote, "price"),
                              coalesce(field(quote, "last"), field(quote, "close"))))
        eps == Number(numberOrZero(coalesce(field(metrics, "earningsPerShare"),
                               coalesce(field(metrics, "eps"), field(latest, "eps")))))
        revenuePerShare == numberOrNull(field(metrics, "revenuePerShare"))
        bookValuePerShare ==
            Number(numberOrZero(coalesce(field(metrics, "bookValuePerShare"),
                                         field(latest, "bookValuePerShare"))))
        fcfPerShare == numberOrNull(field(metrics, "freeCashFlowPerShare"))
        fairValue == IF truthy(price) THEN Number(toFixedUnits(price.n * 105, 100, 100))
                     ELSE Null
        suggestedEntry == IF truthy(price) THEN Number(toFixedUnits(price.n * 95, 100, 100))
                          ELSE Null
        upside == IF truthy(fairValue) /\ truthy(price)
                  THEN Number(toFixedUnits((fairValue.n - price.n) * Unit, price.n, 1))
                  ELSE Null
    IN  [price |-> price,
         fairValue |-> fairValue,
         suggestedEntry |-> suggestedEntry,
         upside |-> upside,
         pe |-> ratioField(price, eps),
         priceToSales |-> ratioField(price, revenuePerShare),
         priceToBook |-> ratioField(price, bookValuePerShare),
         priceToFcf |-> ratioField(price, fcfPerShare),
         bull |-> IF truthy(fairValue) THEN Number(toFixedUnits(fairValue.n * 115, 100, 100))
                  ELSE Null,
         base |-> fairValue,
         bear |-> IF truthy(fairValue) THEN Number(toFixedUnits(fairValue.n * 85, 100, 100))
                  ELSE Null]

\* The quotes, fundamentals and records of the bundled files
ValuationPrices == {Undefined, Null, Number(0), Number(40), Number(140), Number(100 * Unit)}
ValuationQuotes ==
    {[t |-> "quote", price |-> p, last |-> Undefined, close |-> Undefined] :
        p \in ValuationPrices}
    \cup {[t |-> "quote", price |-> Undefined, last |-> l, close |-> Number(3 * Unit)] :
        l \in {Undefined, Number(2 * Unit)}}
ValuationFundamentals ==
    {[t |-> "undefined"]}
    \cup {[t |-> "object",
           metrics |-> [t |-> "object", earningsPerShare |-> e, revenuePerShare |-> r,
                        bookValuePerShare |-> Undefined, freeCashFlowPerShare |-> f],
           latest |-> [t |-> "object", eps |-> le, bookValuePerShare |-> b]] :
            e \in {Undefined, Number(0), Number(5 * Unit), Number(0 - 2 * Unit)},
            r \in {Undefined, Number(0), Number(2 * Unit)},
            f \in {Undefined, Number(8 * Unit)},
            le \in {Undefined, Number(4 * Unit)},
            b \in {Undefined, Number(0), Number(4 * Unit)}}
ValuationRecords ==
    {[quote |-> q, intraday |-> [t |-> "undefined"], eod |-> [t |-> "undefined"],
      fundamentals |-> f] : q \in ValuationQuotes, f \in ValuationFundamentals}
    \cup {[quote |-> [t |-> "undefined"], intraday |-> i, eod |-> e,
           fundamentals |-> [t |-> "undefined"]] :
            i \in {[t |-> "undefined"], [t |-> "array", items |-> <<>>],
                   [t |-> "array", items |-> Bars(2)]},
            e \in {[t |-> "undefined"], [t |-> "array", items |-> Bars(1)]}}

ValuationCalls ==
    {[IdleCut EXCEPT !.pc = "called", !.fn = "computeValuationSnapshot", !.data = r] :
        r \in ValuationRecords}

\* computeValuationSnapshot(record, symbol) on a loaded record
ComputeValuation ==
    /\ sCall.pc = "called" /\ sCall.fn = "computeValuationSnapshot"
    /\ sCall' = [sCall EXCEPT !.pc = "done", !.out = computeValuationSnapshot(sCall.data)]
    /\ UNCHANGED <<handlerVars, clientVars, envVars, mockVars, instVars>>

-----------------------------------------------------------------------------
(* utils/mock-tiingo.js: extractFromRecord. The data it returns is a list
   ("array"), the two lists of corporate actions ("actions"), a section taken
   as it is ("object"), a valuation snapshot ("snapshot") or null. *)

K_fundamentals == <<"f","u","n","d","a","m","e","n","t","a","l","s">>
K_overview == <<"o","v","e","r","v","i","e","w">>
K_valuation == <<"v","a","l","u","a","t","i","o","n">>

arrayOf(items) == [t |-> "array", items |-> items]

\* record?.section || null
sectionOrNull(record, name) ==
    IF sectionOf(record, name).t = "undefined" THEN [t |-> "null"] ELSE sectionOf(record, name)

\* case 'documents' of extractFromRecord
extractDocuments(record, limit) ==
    LET source == IF sectionOf(record, "documents").t = "array"
                  THEN sectionOf(record, "documents") ELSE sectionOf(record, "filings")
    IN  arrayOf(sliceLimit(source, limit, FALSE))

\* case 'actions' of extractFromRecord
extractActions(record, limit) ==
    LET actions == sectionOf(record, "actions")
        list(name) == IF actions.t = "object" /\ sectionOf(actions, name).t = "array"
                      THEN sliceLimit(sectionOf(actions, name), limit, FALSE) ELSE <<>>
    IN  [t |-> "actions", dividends |-> list("dividends"), splits |-> list("splits")]

\* extractFromRecord(record, kind, params).data
extractFromRecord(record, kind, limit) ==
    CASE kind = K_intraday_latest ->
            IF getLatestQuote(record).t # "null" THEN arrayOf(<<getLatestQuote(record)>>)
            ELSE arrayOf(<<>>)
      [] kind = K_intraday -> arrayOf(sliceLimit(sectionOf(record, "intraday"), limit, TRUE))
      [] kind = K_news -> arrayOf(sliceLimit(sectionOf(record, "news"), limit, FALSE))
      [] kind = K_documents -> extractDocuments(record, limit)
      [] kind = K_filings ->
            IF sliceLimit(sectionOf(record, "filings"), limit, FALSE) = <<>>
            THEN extractDocuments(record, limit)
            ELSE arrayOf(sliceLimit(sectionOf(record, "filings"), limit, FALSE))
      [] kind = K_actions -> extractActions(record, limit)
      [] kind = K_fundamentals -> sectionOrNull(record, "fundamentals")
      [] kind = K_statements -> sectionOrNull(record, "statements")
      [] kind = K_overview -> sectionOrNull(record, "overview")
      [] kind = K_valuation ->
            [t |-> "snapshot", price |-> computeValuationSnapshot(record).price,
             valuation |-> computeValuationSnapshot(record)]
      [] OTHER -> arrayOf(sliceLimit(sectionOf(record, "eod"), limit, TRUE))

\* extractFromRecord(record, kind, params) on a loaded record
MockExtract ==
    /\ sCall.pc = "called" /\ sCall.fn = "extractFromRecord"
    /\ sCall' = [sCall EXCEPT !.pc = "done",
                          !.out = extractFromRecord(sCall.data, sCall.kind, sCall.limit)]
    /\ UNCHANGED <<handlerVars, clientVars, envVars, mockVars, instVars>>

-----------------------------------------------------------------------------
(* netlify/functions/tiingo.js: the symbol helpers applied to a symbol, and
   applied again to the symbol they returned *)

SymbolBases == ASX_TICKERS \cup {<<"A","A","P","L">>, <<"B","P">>, <<"R","Y">>, <<"Z","Z","Z">>}
SymbolSuffixes ==
    {<<>>, <<".","A","X">>, <<".","a","x">>, <<".","A","X","B">>, <<".","L">>, <<".","L","O","N">>, <<".","T","O">>, <<".","T","S","E">>}
SymbolInputs ==
    {<<>>, <<" "," ">>}
    \cup {pad \o cased \o suffix \o pad :
            pad \in {<<>>, <<" ">>},
            cased \in UNION {{b, toLowerCase(b)} : b \in SymbolBases},
            suffix \in SymbolSuffixes}

SymbolCalls ==
    {[IdleCut EXCEPT !.pc = "called", !.fn = "mapSymbolForAPI", !.kind = s] :
        s \in SymbolInputs}

\* What the handler derives from a symbol: mappedSymbol, meta.currency, meta.exchange
symbolOut(symbol) ==
    [t |-> "symbol",
     mapped |-> mapSymbolForAPI(symbol),
     currency |-> detectCurrency(mapSymbolForAPI(symbol)),
     exchange |-> detectExchange(mapSymbolForAPI(symbol))]

\* mapSymbolForAPI, detectCurrency and detectExchange on the symbol of the call
MapSymbol ==
    /\ sCall.pc = "called" /\ sCall.fn = "mapSymbolForAPI"
    /\ sCall' = [sCall EXCEPT !.pc = "done", !.out = symbolOut(sCall.kind)]
    /\ UNCHANGED <<handlerVars, clientVars, envVars, mockVars, instVars>>

\* The mapped symbol sent through the helpers once more
MapSymbolAgain ==
    /\ sCall.pc = "done" /\ sCall.fn = "mapSymbolForAPI"
    /\ sCall' = [sCall EXCEPT !.pc = "again", !.out = symbolOut(sCall.out.mapped)]
    /\ UNCHANGED <<handlerVars, clientVars, envVars, mockVars, instVars>>

-----------------------------------------------------------------------------
(* netlify/functions/tiingo.js, case "intraday": the lookback window of the
   request for a limit and an interval as the handler parsed them *)

\* limit after Math.min(parseInt(...) || 150, 300), when it is positive
LookbackLimits == 1..300
\* intervalMinutes as parseIntervalMinutes returns it: the documented
\* intervals, the minutes around one trading day, and a long one
LookbackIntervals == {1, 5, 30, 60, 389, 390, 391, 100000}

LookbackCalls ==
    {[IdleCut EXCEPT !.pc = "called", !.fn = "lookbackDays", !.limit = Number(l),
                     !.data = [t |-> "minutes", n |-> i]] :
        l \in LookbackLimits, i \in LookbackIntervals}

\* The handler computes lookbackDays from limit and intervalMinutes
ComputeLookback ==
    /\ sCall.pc = "called" /\ sCall.fn = "lookbackDays"
    /\ sCall' = [sCall EXCEPT !.pc = "done",
                          !.out = Number(intradayLookbackDays(sCall.limit.n, sCall.data.n))]
    /\ UNCHANGED <<handlerVars, clientVars, envVars, mockVars, instVars>>

-----------------------------------------------------------------------------
(* netlify/functions/tiingo.js, case "intraday": what the handler derives from
   the interval parameter *)

DocumentedIntervals == {<<"1","m","i","n">>, <<"5","m","i","n">>, <<"3","0","m","i","n">>, <<"1","h","o","u","r">>}
IntervalInputs ==
    {None}
    \cup {Some(i) : i \in DocumentedIntervals}
    \cup {Some(<<>>), Some(<<"a","b","c">>), Some(<<"0","m","i","n">>), Some(<<" ","1","5","M","I","N"," ">>), Some(<<"-","5","m","i","n">>)}
IntervalLimits == {1, 2, 78, 150, 299, 300}
IntervalCalls ==
    {[IdleCut EXCEPT !.pc = "called", !.fn = "parseIntervalMinutes", !.limit = Number(l),
                     !.data = [t |-> "interval", value |-> i]] :
        l \in IntervalLimits, i \in IntervalInputs}

\* intervalMinutes, and its two uses: the spacing of the generated series and
\* the lookback window of the request
intervalOut(interval, limit, now) ==
    LET intervalMinutes == parseIntervalMinutes(nullish(interval, <<"5","m","i","n">>))
    IN  [t |-> "interval",
         intervalMinutes |-> intervalMinutes,
         spacing |-> generateFallbackIntradaySeries(limit, intervalMinutes, now).stepMinutes,
         lookbackDays |-> intradayLookbackDays(limit, intervalMinutes)]

\* The handler parses the interval of an intraday request
ParseInterval ==
    /\ sCall.pc = "called" /\ sCall.fn = "parseIntervalMinutes"
    /\ \E now \in NowDays :
          sCall' = [sCall EXCEPT !.pc = "done",
                                !.out = intervalOut(sCall.data.value, sCall.limit.n, now)]
    /\ UNCHANGED <<handlerVars, clientVars, envVars, mockVars, instVars>>

-----------------------------------------------------------------------------
(* utils/mock-tiingo.js: loadMockTiingo, loadMockRecord and
   __clearMockTiingoCache. loadMockRecord is reached only through
   loadMockTiingo; a call is cut at each await: the fetch and response.json(). *)

FALLBACK_SYMBOL == <<"G","E","N","E","R","I","C">>
MockSymbols == {<<"A","A","P","L">>, FALLBACK_SYMBOL}

\* Values a bundled file parses to. A record or a JSON array is an object;
\* anything else (null, a number) is not.
JsonNull == [scalar |-> "null"]
JsonNumber == [scalar |-> "number"]
JsonArray == [length |-> 0]
\* if (!json) return null, without the test of typeof json
isTruthyJson(json) == json # [scalar |-> "null"]
\* !(!json || typeof json !== 'object')
isObjectJson(json) == "scalar" \notin DOMAIN json

BareRecord(symbol) == [symbol |-> symbol]
HollowRecord(symbol) ==
    [symbol |-> symbol,
     intraday |-> arrayOf(<<>>), eod |-> arrayOf(<<>>), news |-> arrayOf(<<>>),
     documents |-> arrayOf(<<>>), filings |-> arrayOf(<<>>),
     actions |-> [t |-> "object", dividends |-> arrayOf(<<>>), splits |-> arrayOf(<<>>)]]
RichRecord(symbol) ==
    [symbol |-> symbol,
     quote |-> [t |-> "quote", price |-> Number(100 * Unit), last |-> Undefined,
                close |-> Undefined],
     intraday |-> arrayOf(Bars(2)), eod |-> arrayOf(Bars(3)), news |-> arrayOf(Bars(2)),
     documents |-> arrayOf(Bars(1)), filings |-> arrayOf(Bars(2)),
     actions |-> [t |-> "object", dividends |-> arrayOf(Bars(2)), splits |-> arrayOf(<<>>)],
     fundamentals |-> [t |-> "object",
                       metrics |-> [t |-> "object", earningsPerShare |-> Number(5 * Unit)],
                       latest |-> [t |-> "object"]],
     statements |-> [t |-> "object", income |-> arrayOf(Bars(1))],
     overview |-> [t |-> "object", name |-> "Sample"]]

\* data/tiingo-mock/<symbol>.json: no such file, or a file that parses to a value
NoFile == [t |-> "absent"]
JsonFile(value) == [t |-> "json", value |-> value]
FilesOf(symbol) ==
    {NoFile, JsonFile(JsonNumber), JsonFile(JsonArray), JsonFile(BareRecord(symbol)),
     JsonFile(HollowRecord(symbol)), JsonFile(RichRecord(symbol))}

\* The page the module runs in: no window or no fetch ("none"), a window
\* without a location ("nolocation"), or a page with an origin ("page")
Pages == {"none", "nolocation", "page"}
MockSites ==
    {[page |-> p, files |-> f] :
        p \in Pages,
        f \in {g \in [MockSymbols -> UNION {FilesOf(s) : s \in MockSymbols}] :
                    \A s \in MockSymbols : g[s] \in FilesOf(s)}}

\* The state outside the mock specifications
NoFiles == [page |-> "none", files |-> [s \in MockSymbols |-> NoFile]]
NotCached == [scalar |-> "undefined"]
EmptyMockCache == [s \in MockSymbols |-> NotCached]
NoFetches == [s \in MockSymbols |-> 0]
LoadIds == {1, 2}
IdleLoad ==
    [pc |-> "unused", params |-> [symbol |-> None, kind |-> None, limit |-> Undefined],
     calls |-> 0, requested |-> <<>>, kind |-> <<>>, attempts |-> <<>>,
     fetched |-> FALSE, rec |-> JsonNull, out |-> [t |-> "null"]]
IdleLoads == [id \in LoadIds |-> IdleLoad]

\* Calls of loadMockTiingo one caller makes, at most
MaxMockCalls == 2
mockHas(symbol) == mockCache[symbol] # NotCached

\* The parameters of the calls
MockSymbolParams == {None, Some(<<" ","a","a","p","l"," ">>), Some(<<"G","E","N","E","R","I","C">>)}
MockKindParams ==
    {None, Some(<<"q","u","o","t","e">>), Some(<<"E","O","D">>), Some(<<"b","o","g","u","s">>)}
    \cup {Some(k) : k \in CanonicalKinds}
MockParams ==
    {[symbol |-> s, kind |-> k, limit |-> l] :
        s \in MockSymbolParams, k \in MockKindParams, l \in {Undefined, Number(1)}}

\* [requestedSymbol, FALLBACK_SYMBOL].filter(Boolean)
symbolAttempts(requestedSymbol) ==
    IF requestedSymbol = <<>> THEN <<FALLBACK_SYMBOL>>
    ELSE <<requestedSymbol, FALLBACK_SYMBOL>>

\* data === null || (Array.isArray(data) && data.length === 0 && kind !== 'intraday_latest')
skipsData(data, kind) ==
    \/ data.t = "null"
    \/ data.t = "array" /\ data.items = <<>> /\ kind # K_intraday_latest

\* What loadMockTiingo returns for a record that passed the test above
mockResult(record, data, requestedSymbol, attempt, kind) ==
    [t |-> "result",
     data |-> data,
     symbol |-> IF "symbol" \in DOMAIN record /\ record.symbol # <<>> THEN record.symbol
                ELSE IF requestedSymbol # <<>> THEN requestedSymbol ELSE attempt,
     mockSymbol |-> attempt,
     kind |-> kind]

\* loadMockTiingo from its call to the first loadMockRecord
CallLoadMockTiingo(id) ==
    /\ mockLoads[id].pc \in {"idle", "done"}
    /\ mockLoads[id].calls < MaxMockCalls
    /\ LET params == mockLoads[id].params
           requestedSymbol ==
               toUpperCase(trim(IF params.symbol.has THEN params.symbol.s ELSE <<>>))
       IN  mockLoads' =
             [mockLoads EXCEPT ![id] =
                IF mockFiles.page = "none"
                THEN [@ EXCEPT !.pc = "done", !.calls = @ + 1, !.out = [t |-> "null"],
                               !.attempts = <<>>, !.fetched = FALSE, !.rec = JsonNull]
                ELSE [@ EXCEPT !.pc = "attempt", !.calls = @ + 1, !.out = [t |-> "null"],
                               !.requested = requestedSymbol,
                               !.attempts = symbolAttempts(requestedSymbol),
                               !.kind = mockNormaliseKind(params.kind),
                               !.fetched = FALSE, !.rec = JsonNull]]
    /\ UNCHANGED <<mockFiles, mockCache, mockFetches>>
    /\ UNCHANGED <<handlerVars, clientVars, envVars, sCall, instVars>>

\* loadMockRecord(attempt) from its call to its return or to the fetch
LoadMockRecord(id) ==
    /\ mockLoads[id].pc = "attempt"
    /\ LET target == Head(mockLoads[id].attempts)
       IN  IF mockHas(target)
           THEN /\ mockLoads' = [mockLoads EXCEPT ![id].pc = "loaded",
                                                  ![id].fetched = FALSE,
                                                  ![id].rec = mockCache[target]]
                /\ UNCHANGED mockFetches
           ELSE IF mockFiles.page = "nolocation"
           THEN /\ mockLoads' = [mockLoads EXCEPT ![id].pc = "loaded",
                                                  ![id].fetched = FALSE,
                                                  ![id].rec = JsonNull]
                /\ UNCHANGED mockFetches
           ELSE /\ mockLoads' = [mockLoads EXCEPT ![id].pc = "fetch", ![id].fetched = TRUE,
                                                  ![id].rec = JsonNull]
                /\ mockFetches' = [mockFetches EXCEPT ![target] = @ + 1]
    /\ UNCHANGED <<mockFiles, mockCache>>
    /\ UNCHANGED <<handlerVars, clientVars, envVars, sCall, instVars>>

\* The fetch of loadMockRecord settles: a response that is ok, one that is
\* not, or a rejection. A file that is absent is never served with its data,
\* but the host may answer 200 with a page that is not JSON.
MockFetchSettles(id) ==
    /\ mockLoads[id].pc = "fetch"
    /\ \E outcome \in {"ok", "notOk", "rejected"} :
          mockLoads' = [mockLoads EXCEPT ![id].pc = IF outcome = "ok" THEN "json"
                                                    ELSE "loaded"]
    /\ UNCHANGED <<mockFiles, mockCache, mockFetches>>
    /\ UNCHANGED <<handlerVars, clientVars, envVars, sCall, instVars>>

\* response.json() settles and loadMockRecord returns
MockJsonSettles(id) ==
    /\ mockLoads[id].pc = "json"
    /\ LET target == Head(mockLoads[id].attempts)
           file == mockFiles.files[target]
       IN  \E parsed \in {FALSE} \cup (IF file.t = "json" THEN {TRUE} ELSE {}) :
              LET json == IF parsed THEN file.value ELSE JsonNull
              IN  IF isObjectJson(json)
                  THEN /\ mockCache' = [mockCache EXCEPT ![target] = json]
                       /\ mockLoads' = [mockLoads EXCEPT ![id].pc = "loaded",
                                                         ![id].rec = json]
                  ELSE /\ mockLoads' = [mockLoads EXCEPT ![id].pc = "loaded"]
                       /\ UNCHANGED mockCache
    /\ UNCHANGED <<mockFiles, mockFetches>>
    /\ UNCHANGED <<handlerVars, clientVars, envVars, sCall, instVars>>

\* The body of the loop of loadMockTiingo after loadMockRecord returned
MockAttemptEnds(id) ==
    /\ mockLoads[id].pc = "loaded"
    /\ LET load == mockLoads[id]
           attempt == Head(load.attempts)
           data == extractFromRecord(load.rec, load.kind, load.params.limit)
           skip == ~isObjectJson(load.rec) \/ skipsData(data, load.kind)
       IN  mockLoads' =
             [mockLoads EXCEPT ![id] =
                IF ~skip
                THEN [@ EXCEPT !.pc = "done",
                               !.out = mockResult(load.rec, data, load.requested,
                                                  attempt, load.kind)]
                ELSE IF Tail(load.attempts) = <<>>
                THEN [@ EXCEPT !.pc = "done", !.out = [t |-> "null"]]
                ELSE [@ EXCEPT !.pc = "attempt", !.attempts = Tail(@)]]
    /\ UNCHANGED <<mockFiles, mockCache, mockFetches>>
    /\ UNCHANGED <<handlerVars, clientVars, envVars, sCall, instVars>>

\* __clearMockTiingoCache()
ClearMockTiingoCache ==
    /\ \E s \in MockSymbols : mockHas(s)
    /\ mockCache' = EmptyMockCache
    /\ UNCHANGED <<mockFiles, mockLoads, mockFetches>>
    /\ UNCHANGED <<handlerVars, clientVars, envVars, sCall, instVars>>

-----------------------------------------------------------------------------
(* tiingo-client.js: TiingoClient objects, getDefaultClient and the tiingo.*
   convenience functions. A request through an object is makeRequest on the
   cache and the rate limiter of that object; its attempts are folded into
   one outcome, the value read or the error thrown. *)

\* The most TiingoClient objects, the most calls and the last clock tick in
\* one behaviour
MaxClients == 2
MaxInstCalls == 2
MaxInstTime == 1
InstanceIds == 1..MaxClients

\* new TiingoClient(options): {} gives 200 requests a minute and a cache;
\* here two tokens in four ticks
DefaultInstOptions == [maxRequests |-> 2, windowMs |-> 4, enableCache |-> TRUE]
InstOptions ==
    {DefaultInstOptions, [maxRequests |-> 1, windowMs |-> 1, enableCache |-> TRUE]}
\* The request the calls make: they differ in the object they go through
InstRequests == {r \in Requests : r.params = NoParams}
\* The value the provider answers with
InstValues == {v \in JsonValues : truthyJson(v)}

\* constructor(options): this.cache = new SimpleCache(...),
\* this.rateLimiter = new RateLimiter(...)
newTiingoClient(options, now) ==
    [made |-> TRUE, options |-> options, cache |-> EmptyCache,
     limiter |-> newRateLimiter(options.maxRequests, options.windowMs, now)]
NoClient ==
    [made |-> FALSE, options |-> DefaultInstOptions, cache |-> EmptyCache,
     limiter |-> newRateLimiter(DefaultInstOptions.maxRequests,
                                DefaultInstOptions.windowMs, 0)]
NoClients == [i \in InstanceIds |-> NoClient]
hasRoom(cl) == \E i \in InstanceIds : ~cl[i].made
\* The identity of the next object constructed
nextClient(cl) ==
    CHOOSE i \in InstanceIds : ~cl[i].made /\ \A j \in InstanceIds : j < i => cl[j].made

\* getDefaultClient that builds a client whenever it is given other options
getDefaultClientPerOptions(dc, cl, options, now) ==
    IF dc = 0 \/ (cl[dc].options # options /\ hasRoom(cl))
    THEN [defaultClient |-> nextClient(cl),
          clients |-> [cl EXCEPT ![nextClient(cl)] = newTiingoClient(options, now)],
          client |-> nextClient(cl)]
    ELSE [defaultClient |-> dc, clients |-> cl, client |-> dc]

\* getDefaultClient(options): if (!defaultClient) defaultClient = new TiingoClient(options)
getDefaultClient(dc, cl, options, now) ==
    IF dc = 0
    THEN [defaultClient |-> nextClient(cl),
          clients |-> [cl EXCEPT ![nextClient(cl)] = newTiingoClient(options, now)],
          client |-> nextClient(cl)]
    ELSE [defaultClient |-> dc, clients |-> cl, client |-> dc]

IdleInstCall ==
    [pc |-> "idle", op |-> "", via |-> "", client |-> 0, key |-> <<>>,
     result |-> JsUndefined, fromCache |-> FALSE, wakeAt |-> -1]

\* makeRequest on the object i from its entry to its first suspension
beginRequest(cl, i, r, via, now) ==
    LET key == getCacheKey(r.endpoint, r.params)
        got == cacheGet(cl[i].cache, key, now)
        a == acquire(cl[i].limiter, now)
        base == [IdleInstCall EXCEPT !.op = "makeRequest", !.via = via, !.client = i,
                                    !.key = key]
    IN  IF cl[i].options.enableCache /\ truthyJson(got.value)
        THEN [clients |-> cl,
              call |-> [base EXCEPT !.pc = "returned", !.result = got.value,
                                    !.fromCache = TRUE]]
        ELSE [clients |-> [cl EXCEPT ![i].cache = IF cl[i].options.enableCache
                                                  THEN got.cache ELSE @,
                                     ![i].limiter = a.limiter],
              call |-> IF a.granted THEN [base EXCEPT !.pc = "fetching"]
                       ELSE [base EXCEPT !.pc = "acquireWait",
                                         !.wakeAt = now + waitTime(cl[i].limiter)]]

\* new TiingoClient(options)
NewClient(options) ==
    /\ hasRoom(clients)
    /\ clients' = [clients EXCEPT ![nextClient(clients)] = newTiingoClient(options, clock)]
    /\ UNCHANGED <<defaultClient, iCall>>
    /\ UNCHANGED <<handlerVars, clientVars, envVars, sCall, mockVars>>

\* getDefaultClient(options), called by the application
GetDefaultClient(options) ==
    /\ iCall.pc \in {"idle", "returned", "thrown"}
    /\ defaultClient # 0 \/ hasRoom(clients)
    /\ LET g == getDefaultClient(defaultClient, clients, options, clock)
       IN  /\ defaultClient' = g.defaultClient
           /\ clients' = g.clients
           /\ iCall' = [IdleInstCall EXCEPT !.pc = "returned", !.op = "getDefaultClient",
                                            !.client = g.client]
    /\ UNCHANGED <<handlerVars, clientVars, envVars, sCall, mockVars>>

\* A request method of the object i, up to the first suspension of makeRequest
ClientRequest(i, r) ==
    /\ iCall.pc \in {"idle", "returned", "thrown"}
    /\ clients[i].made
    /\ started < MaxInstCalls
    /\ started' = started + 1
    /\ LET b == beginRequest(clients, i, r, "instance", clock)
       IN  clients' = b.clients /\ iCall' = b.call
    /\ UNCHANGED <<defaultClient, clock, copt, cache, limiter, call, grantLog>>
    /\ UNCHANGED <<handlerVars, envVars, sCall, mockVars>>

\* tiingo.getStockPrices(...) and the like: getDefaultClient().getStockPrices(...)
TiingoRequest(r) ==
    /\ iCall.pc \in {"idle", "returned", "thrown"}
    /\ defaultClient # 0 \/ hasRoom(clients)
    /\ started < MaxInstCalls
    /\ started' = started + 1
    /\ LET g == getDefaultClient(defaultClient, clients, DefaultInstOptions, clock)
           b == beginRequest(g.clients, g.client, r, "tiingo", clock)
       IN  /\ defaultClient' = g.defaultClient
           /\ clients' = b.clients
           /\ iCall' = b.call
    /\ UNCHANGED <<clock, copt, cache, limiter, call, grantLog>>
    /\ UNCHANGED <<handlerVars, envVars, sCall, mockVars>>

\* The setTimeout of acquire() fired: return this.acquire()
InstancePoll ==
    /\ iCall.pc = "acquireWait"
    /\ clock >= iCall.wakeAt
    /\ LET i == iCall.client
           a == acquire(clients[i].limiter, clock)
       IN  /\ clients' = [clients EXCEPT ![i].limiter = a.limiter]
           /\ iCall' = IF a.granted THEN [iCall EXCEPT !.pc = "fetching"]
                       ELSE [iCall EXCEPT !.wakeAt = clock + waitTime(clients[i].limiter)]
    /\ UNCHANGED defaultClient
    /\ UNCHANGED <<handlerVars, clientVars, envVars, sCall, mockVars>>

\* The attempts ended with a value: this.cache.set(cacheKey, data, cacheTtl)
InstanceReturns(v) ==
    /\ iCall.pc = "fetching"
    /\ LET i == iCall.client
       IN  clients' = [clients EXCEPT ![i].cache =
                          IF clients[i].options.enableCache
                          THEN cacheSet(@, iCall.key, v, 2, clock) ELSE @]
    /\ iCall' = [iCall EXCEPT !.pc = "returned", !.result = v]
    /\ UNCHANGED defaultClient
    /\ UNCHANGED <<handlerVars, clientVars, envVars, sCall, mockVars>>

\* The attempts ended with an error: throw lastError
InstanceThrows ==
    /\ iCall.pc = "fetching"
    /\ iCall' = [iCall EXCEPT !.pc = "thrown"]
    /\ UNCHANGED <<clients, defaultClient>>
    /\ UNCHANGED <<handlerVars, clientVars, envVars, sCall, mockVars>>

\* Time passes; a timer that is due fires first
InstanceTick ==
    /\ clock < MaxInstTime
    /\ iCall.pc = "acquireWait" => iCall.wakeAt > clock
    /\ clock' = clock + 1
    /\ UNCHANGED <<copt, cache, limiter, call, started, grantLog>>
    /\ UNCHANGED <<handlerVars, envVars, utilVars>>

-----------------------------------------------------------------------------
(* tiingo-client.js: a SimpleCache called directly *)

\* ttl arguments of set(), in ticks
CacheTtls == {0, 1, 2}
CacheCall(fn, key, out, removed) ==
    [fn |-> fn, pc |-> "done", key |-> key, value |-> JsUndefined, ttl |-> 0,
     out |-> out, removed |-> removed]
entriesIn(c) == Cardinality({k \in DOMAIN c : c[k].has})

\* cache.set(key, value, ttl)
CacheSetCall(key, value, ttl) ==
    /\ cache' = cacheSet(cache, key, value, ttl, clock)
    /\ sCall' = [CacheCall("set", key, JsUndefined, 0) EXCEPT !.value = value, !.ttl = ttl]
    /\ UNCHANGED <<clock, copt, limiter, call, started, grantLog>>
    /\ UNCHANGED <<handlerVars, envVars, mockVars, instVars>>

\* cache.get(key)
CacheGetCall(key) ==
    /\ LET got == cacheGet(cache, key, clock)
       IN  /\ cache' = got.cache
           /\ sCall' = CacheCall("get", key, got.value, entriesIn(cache) - entriesIn(got.cache))
    /\ UNCHANGED <<clock, copt, limiter, call, started, grantLog>>
    /\ UNCHANGED <<handlerVars, envVars, mockVars, instVars>>

\* cache.delete(key)
CacheDeleteCall(key) ==
    /\ cache' = cacheDelete(cache, key)
    /\ sCall' = CacheCall("delete", key, JsUndefined, entriesIn(cache) - entriesIn(cache'))
    /\ UNCHANGED <<clock, copt, limiter, call, started, grantLog>>
    /\ UNCHANGED <<handlerVars, envVars, mockVars, instVars>>

\* cache.clear()
CacheClearCall ==
    /\ cache' = cacheClear(cache)
    /\ sCall' = CacheCall("clear", <<>>, JsUndefined, entriesIn(cache))
    /\ UNCHANGED <<clock, copt, limiter, call, started, grantLog>>
    /\ UNCHANGED <<handlerVars, envVars, mockVars, instVars>>

\* cache.size()
CacheSizeCall ==
    /\ LET sized == cacheSize(cache, clock)
       IN  /\ cache' = sized.cache
           /\ sCall' = CacheCall("size", <<>>, Number(sized.size),
                                 entriesIn(cache) - entriesIn(sized.cache))
    /\ UNCHANGED <<clock, copt, limiter, call, started, grantLog>>
    /\ UNCHANGED <<handlerVars, envVars, mockVars, instVars>>

\* Time passes
CacheTick ==
    /\ clock < MaxTime
    /\ clock' = clock + 1
    /\ UNCHANGED <<copt, cache, limiter, call, started, grantLog>>
    /\ UNCHANGED <<handlerVars, envVars, utilVars>>

-----------------------------------------------------------------------------
(* Specifications *)

\* The subsystems a specification does not run stay at rest
RestOptions ==
    CHOOSE o \in ClientOptions : o.maxRequests = 1 /\ o.enableCache /\ o.enableRateLimit
IdleCalls == [c \in CallIds |-> IdleCall]

\* One request to one of the two function handlers
HandlerInit ==
    /\ hImpl \in {"tiingo", "tiingo-data"}
    /\ hEnvKey \in EnvKeys
    /\ hNow \in NowDays
    /\ hEvent = NoEvent
    /\ hPc = "idle"
    /\ hFetches = 0
    /\ hResp = Rejected
    /\ hOut = NoOut
    /\ clock = 0
    /\ copt = RestOptions
    /\ cache = EmptyCache
    /\ limiter = newRateLimiter(RestOptions.maxRequests, RestOptions.windowMs, 0)
    /\ call = IdleCalls
    /\ started = 0
    /\ grantLog = <<>>
    /\ env = <<>>
    /\ ePc = "start"
    /\ resolved = EmptyDetail
    /\ sCall = IdleCut
    /\ mockFiles = NoFiles
    /\ mockCache = EmptyMockCache
    /\ mockLoads = IdleLoads
    /\ mockFetches = NoFetches
    /\ clients = NoClients
    /\ defaultClient = 0
    /\ iCall = IdleInstCall

HandlerNext ==
    \/ TiingoReceive
    \/ DataReceive
    \/ UpstreamSettles
    \/ TiingoResume
    \/ DataResume

SpecHandler == HandlerInit /\ [][HandlerNext]_vars

\* A freshly constructed TiingoClient: new SimpleCache(), new RateLimiter(...)
ClientInit ==
    /\ clock = 0
    /\ copt \in {o \in ClientOptions : o.maxRequests = 1}
    /\ cache = EmptyCache
    /\ limiter = newRateLimiter(copt.maxRequests, copt.windowMs, 0)
    /\ call = IdleCalls
    /\ started = 0
    /\ grantLog = <<>>
    /\ hImpl = "tiingo"
    /\ hEnvKey = None
    /\ hNow = 0
    /\ hEvent = NoEvent
    /\ hPc = "idle"
    /\ hFetches = 0
    /\ hResp = Rejected
    /\ hOut = NoOut
    /\ env = <<>>
    /\ ePc = "start"
    /\ resolved = EmptyDetail
    /\ sCall = IdleCut
    /\ mockFiles = NoFiles
    /\ mockCache = EmptyMockCache
    /\ mockLoads = IdleLoads
    /\ mockFetches = NoFetches
    /\ clients = NoClients
    /\ defaultClient = 0
    /\ iCall = IdleInstCall

ClientNext ==
    \/ \E c \in CallIds, r \in Requests, ro \in RequestOptions : StartRequest(c, r, ro)
    \/ \E c \in CallIds : AcquirePoll(c)
    \/ \E c \in CallIds, s \in {200} \cup ErrorStatuses : FetchResponds(c, s)
    \/ \E c \in CallIds : FetchRejects(c)
    \/ \E c \in CallIds : TimeoutFires(c)
    \/ \E c \in CallIds, text \in ErrorTexts : TextRead(c, text)
    \/ \E c \in CallIds, v \in JsonValues : JsonRead(c, v)
    \/ \E c \in CallIds : JsonFails(c)
    \/ \E c \in CallIds : SleepEnds(c)
    \/ Tick

SpecClient == ClientInit /\ [][ClientNext]_vars

\* A rate limiter on its own, called directly
LimiterInit ==
    /\ clock = 0
    /\ copt \in {o \in ClientOptions : o.enableRateLimit /\ o.enableCache}
    /\ cache = EmptyCache
    /\ limiter = newRateLimiter(copt.maxRequests, copt.windowMs, 0)
    /\ call = IdleCalls
    /\ started = 0
    /\ grantLog = <<>>
    /\ hImpl = "tiingo"
    /\ hEnvKey = None
    /\ hNow = 0
    /\ hEvent = NoEvent
    /\ hPc = "idle"
    /\ hFetches = 0
    /\ hResp = Rejected
    /\ hOut = NoOut
    /\ env = <<>>
    /\ ePc = "start"
    /\ resolved = EmptyDetail
    /\ sCall = IdleCut
    /\ mockFiles = NoFiles
    /\ mockCache = EmptyMockCache
    /\ mockLoads = IdleLoads
    /\ mockFetches = NoFetches
    /\ clients = NoClients
    /\ defaultClient = 0
    /\ iCall = IdleInstCall

LimiterNext ==
    \/ \E c \in CallIds : AcquireCall(c)
    \/ \E c \in CallIds : AcquirePoll(c)
    \/ Tick

SpecLimiter == LimiterInit /\ [][LimiterNext]_vars

\* One resolution of the token against one process.env
EnvInit ==
    /\ env \in Envs
    /\ ePc = "start"
    /\ resolved = EmptyDetail
    /\ sCall = IdleCut
    /\ mockFiles = NoFiles
    /\ mockCache = EmptyMockCache
    /\ mockLoads = IdleLoads
    /\ mockFetches = NoFetches
    /\ clients = NoClients
    /\ defaultClient = 0
    /\ iCall = IdleInstCall
    /\ hImpl = "tiingo"
    /\ hEnvKey = None
    /\ hNow = 0
    /\ hEvent = NoEvent
    /\ hPc = "idle"
    /\ hFetches = 0
    /\ hResp = Rejected
    /\ hOut = NoOut
    /\ clock = 0
    /\ copt = RestOptions
    /\ cache = EmptyCache
    /\ limiter = newRateLimiter(RestOptions.maxRequests, RestOptions.windowMs, 0)
    /\ call = IdleCalls
    /\ started = 0
    /\ grantLog = <<>>

EnvNext == ResolveDetail

SpecEnv == EnvInit /\ [][EnvNext]_vars


\* Environments of one variable whose value is a run of token characters
\* between an optional prefix and suffix, or a literal
MaxTokenRun == 129
charRun(ch, n) == [i \in 1..n |-> ch]
TokenRuns ==
    {charRun("a", n) : n \in {23, 24, 25} \cup 128..MaxTokenRun}
    \cup {<<"-">> \o charRun("a", 24), charRun("a", 24) \o <<"_">>}
TokenLiterals ==
    {<<"t","r","u","e">>, <<"f","a","l","s","e">>, <<"n","u","l","l">>, <<"0">>, <<"1">>, <<"T","R","U","E">>, <<"u","n","d","e","f","i","n","e","d">>}
TokenValues ==
    TokenLiterals
    \cup {pre \o run \o suf :
            pre \in {<<>>, <<" ">>, <<"k","e","y","=">>},
            run \in TokenRuns,
            suf \in {<<>>, <<";">>, <<" ","x">>}}
TokenEnvs ==
    {<<<<nm, v>>>> : nm \in {<<"T","I","I","N","G","O","_","K","E","Y">>, <<"t","i","i","n","g","o","_","k","e","y">>, <<"P","A","T","H">>}, v \in TokenValues}

\* One resolution of the token against an environment of one variable
TokenInit ==
    /\ env \in TokenEnvs
    /\ ePc = "start"
    /\ resolved = EmptyDetail
    /\ sCall = IdleCut
    /\ mockFiles = NoFiles
    /\ mockCache = EmptyMockCache
    /\ mockLoads = IdleLoads
    /\ mockFetches = NoFetches
    /\ clients = NoClients
    /\ defaultClient = 0
    /\ iCall = IdleInstCall
    /\ hImpl = "tiingo"
    /\ hEnvKey = None
    /\ hNow = 0
    /\ hEvent = NoEvent
    /\ hPc = "idle"
    /\ hFetches = 0
    /\ hResp = Rejected
    /\ hOut = NoOut
    /\ clock = 0
    /\ copt = RestOptions
    /\ cache = EmptyCache
    /\ limiter = newRateLimiter(RestOptions.maxRequests, RestOptions.windowMs, 0)
    /\ call = IdleCalls
    /\ started = 0
    /\ grantLog = <<>>

SpecToken == TokenInit /\ [][EnvNext]_vars

\* One call that cuts a series: a function handler whose series request was
\* answered with an array of bars, a TiingoClient price method whose request
\* resolved, or the mock extractor on a loaded record
SeriesEvents ==
    {e \in Events : /\ e.httpMethod = "GET" /\ e.symbol = Some(<<"a","a","p","l">>)
                    /\ e.kind \in {Some(K_intraday), Some(K_eod)}}

SeriesInit ==
    /\ clock = 0
    /\ copt = RestOptions
    /\ cache = EmptyCache
    /\ limiter = newRateLimiter(RestOptions.maxRequests, RestOptions.windowMs, 0)
    /\ call = IdleCalls
    /\ started = 0
    /\ grantLog = <<>>
    /\ env = <<>>
    /\ ePc = "start"
    /\ resolved = EmptyDetail
    /\ hNow \in NowDays
    /\ hOut = NoOut
    /\ \/ /\ hImpl \in {"tiingo", "tiingo-data"}
          /\ hEnvKey \in {k \in EnvKeys : tokenOf(k) # <<>>}
          /\ hEvent \in SeriesEvents
          /\ hEvent.kind.s = K_eod =>
                dateValid(hNow - (IF hImpl = "tiingo" THEN tiingoEodLimit(hEvent)
                                  ELSE dataLimit(hEvent, 180, 365)))
          /\ hPc = "settled"
          /\ hFetches = 1
          /\ hResp \in {Responded(200, TRUE, [t |-> "array", items |-> Bars(n)]) :
                          n \in 0..MaxRows \cup {ManyRows}}
          /\ sCall = IdleCut
          /\ mockFiles = NoFiles
          /\ mockCache = EmptyMockCache
          /\ mockLoads = IdleLoads
          /\ mockFetches = NoFetches
          /\ clients = NoClients
          /\ defaultClient = 0
          /\ iCall = IdleInstCall
       \/ /\ hImpl = "tiingo"
          /\ hEnvKey = None
          /\ hEvent = NoEvent
          /\ hPc = "idle"
          /\ hFetches = 0
          /\ hResp = Rejected
          /\ sCall \in PriceCalls \cup MockCalls
          /\ mockFiles = NoFiles
          /\ mockCache = EmptyMockCache
          /\ mockLoads = IdleLoads
          /\ mockFetches = NoFetches
          /\ clients = NoClients
          /\ defaultClient = 0
          /\ iCall = IdleInstCall

SeriesNext ==
    \/ TiingoResume
    \/ DataResume
    \/ GetStockPricesReturns
    \/ GetIntradayPricesReturns
    \/ MockExtract

SpecSeries == SeriesInit /\ [][SeriesNext]_vars

\* One call of computeValuationSnapshot on a bundled record
ValuationInit ==
    /\ hImpl = "tiingo"
    /\ hEnvKey = None
    /\ hNow = 0
    /\ hEvent = NoEvent
    /\ hPc = "idle"
    /\ hFetches = 0
    /\ hResp = Rejected
    /\ hOut = NoOut
    /\ clock = 0
    /\ copt = RestOptions
    /\ cache = EmptyCache
    /\ limiter = newRateLimiter(RestOptions.maxRequests, RestOptions.windowMs, 0)
    /\ call = IdleCalls
    /\ started = 0
    /\ grantLog = <<>>
    /\ env = <<>>
    /\ ePc = "start"
    /\ resolved = EmptyDetail
    /\ sCall \in ValuationCalls
    /\ mockFiles = NoFiles
    /\ mockCache = EmptyMockCache
    /\ mockLoads = IdleLoads
    /\ mockFetches = NoFetches
    /\ clients = NoClients
    /\ defaultClient = 0
    /\ iCall = IdleInstCall

ValuationNext == ComputeValuation

SpecValuation == ValuationInit /\ [][ValuationNext]_vars

\* One symbol sent through mapSymbolForAPI, detectCurrency and detectExchange
SymbolInit ==
    /\ hImpl = "tiingo"
    /\ hEnvKey = None
    /\ hNow = 0
    /\ hEvent = NoEvent
    /\ hPc = "idle"
    /\ hFetches = 0
    /\ hResp = Rejected
    /\ hOut = NoOut
    /\ clock = 0
    /\ copt = RestOptions
    /\ cache = EmptyCache
    /\ limiter = newRateLimiter(RestOptions.maxRequests, RestOptions.windowMs, 0)
    /\ call = IdleCalls
    /\ started = 0
    /\ grantLog = <<>>
    /\ env = <<>>
    /\ ePc = "start"
    /\ resolved = EmptyDetail
    /\ sCall \in SymbolCalls
    /\ mockFiles = NoFiles
    /\ mockCache = EmptyMockCache
    /\ mockLoads = IdleLoads
    /\ mockFetches = NoFetches
    /\ clients = NoClients
    /\ defaultClient = 0
    /\ iCall = IdleInstCall

SymbolNext == MapSymbol \/ MapSymbolAgain

SpecSymbol == SymbolInit /\ [][SymbolNext]_vars

-----------------------------------------------------------------------------
(* The bundled mock data: two callers of loadMockTiingo on one page, and
   __clearMockTiingoCache *)

CacheSites ==
    {site \in MockSites :
        \A s \in MockSymbols :
            site.files[s] \in {NoFile, JsonFile(JsonNumber), JsonFile(RichRecord(s))}}
CacheParams ==
    {[symbol |-> s, kind |-> None, limit |-> Undefined] : s \in {None, Some(<<" ","a","a","p","l"," ">>)}}

MockCacheInit ==
    /\ hImpl = "tiingo"
    /\ hEnvKey = None
    /\ hNow = 0
    /\ hEvent = NoEvent
    /\ hPc = "idle"
    /\ hFetches = 0
    /\ hResp = Rejected
    /\ hOut = NoOut
    /\ clock = 0
    /\ copt = RestOptions
    /\ cache = EmptyCache
    /\ limiter = newRateLimiter(RestOptions.maxRequests, RestOptions.windowMs, 0)
    /\ call = IdleCalls
    /\ started = 0
    /\ grantLog = <<>>
    /\ env = <<>>
    /\ ePc = "start"
    /\ resolved = EmptyDetail
    /\ sCall = IdleCut
    /\ mockFiles \in CacheSites
    /\ mockCache = EmptyMockCache
    /\ mockLoads \in [LoadIds -> {[IdleLoad EXCEPT !.pc = "idle", !.params = p] :
                                    p \in CacheParams}]
    /\ mockFetches = NoFetches
    /\ clients = NoClients
    /\ defaultClient = 0
    /\ iCall = IdleInstCall

MockNext ==
    \/ \E id \in LoadIds : CallLoadMockTiingo(id)
    \/ \E id \in LoadIds : LoadMockRecord(id)
    \/ \E id \in LoadIds : MockFetchSettles(id)
    \/ \E id \in LoadIds : MockJsonSettles(id)
    \/ \E id \in LoadIds : MockAttemptEnds(id)
    \/ ClearMockTiingoCache

SpecMockCache == MockCacheInit /\ [][MockNext]_vars

(* One caller of loadMockTiingo, every kind and every bundled file *)
MockDataInit ==
    /\ hImpl = "tiingo"
    /\ hEnvKey = None
    /\ hNow = 0
    /\ hEvent = NoEvent
    /\ hPc = "idle"
    /\ hFetches = 0
    /\ hResp = Rejected
    /\ hOut = NoOut
    /\ clock = 0
    /\ copt = RestOptions
    /\ cache = EmptyCache
    /\ limiter = newRateLimiter(RestOptions.maxRequests, RestOptions.windowMs, 0)
    /\ call = IdleCalls
    /\ started = 0
    /\ grantLog = <<>>
    /\ env = <<>>
    /\ ePc = "start"
    /\ resolved = EmptyDetail
    /\ sCall = IdleCut
    /\ mockFiles \in MockSites
    /\ mockCache = EmptyMockCache
    /\ mockLoads \in {[IdleLoads EXCEPT ![1] = [IdleLoad EXCEPT !.pc = "idle", !.params = p]] :
                        p \in MockParams}
    /\ mockFetches = NoFetches
    /\ clients = NoClients
    /\ defaultClient = 0
    /\ iCall = IdleInstCall

SpecMockData == MockDataInit /\ [][MockNext]_vars

-----------------------------------------------------------------------------
(* Two makeRequest calls of one client with a cache, in flight together. An
   attempt fails by a rejected or an aborted fetch. *)

PairIds == {1, 2}
\* What the provider answers: one of two quotes, so that the answers differ
PairValues == {[json |-> "object", id |-> i] : i \in {1, 2}}
\* Both calls are for the quote of one symbol and use the cache
PairRequests == {r \in Requests : r.params = NoParams}
PairRequestOptions == {ro \in RequestOptions : ~ro.skipCache}

PairInit ==
    /\ clock = 0
    /\ copt \in {o \in ClientOptions : o.enableCache /\ o.maxRequests = 1}
    /\ cache = EmptyCache
    /\ limiter = newRateLimiter(copt.maxRequests, copt.windowMs, 0)
    /\ call = [c \in PairIds |-> IdleCall]
    /\ started = 0
    /\ grantLog = <<>>
    /\ hImpl = "tiingo"
    /\ hEnvKey = None
    /\ hNow = 0
    /\ hEvent = NoEvent
    /\ hPc = "idle"
    /\ hFetches = 0
    /\ hResp = Rejected
    /\ hOut = NoOut
    /\ env = <<>>
    /\ ePc = "start"
    /\ resolved = EmptyDetail
    /\ sCall = IdleCut
    /\ mockFiles = NoFiles
    /\ mockCache = EmptyMockCache
    /\ mockLoads = IdleLoads
    /\ mockFetches = NoFetches
    /\ clients = NoClients
    /\ defaultClient = 0
    /\ iCall = IdleInstCall

PairNext ==
    \/ \E c \in PairIds, r \in PairRequests, ro \in PairRequestOptions :
            StartRequest(c, r, ro)
    \/ \E c \in PairIds : AcquirePoll(c)
    \/ \E c \in PairIds : FetchResponds(c, 200)
    \/ \E c \in PairIds : FetchRejects(c)
    \/ \E c \in PairIds : TimeoutFires(c)
    \/ \E c \in PairIds, v \in PairValues : JsonRead(c, v)
    \/ \E c \in PairIds : SleepEnds(c)
    \/ Tick

SpecPair == PairInit /\ [][PairNext]_vars

-----------------------------------------------------------------------------
(* One request to tiingo.js in a process environment: the handler reads
   process.env.TIINGO_KEY of the environment the resolver would search *)

GatewayEnvs ==
    {<<>>, <<<<<<"T","I","I","N","G","O","_","K","E","Y">>, <<" ","k","e","y","=">> \o TokenA \o <<";"," ">>>>>>}
    \cup {<<<<nm, TokenA>>>> : nm \in {<<"T","I","I","N","G","O","_","K","E","Y">>, <<"T","I","I","N","G","O","_","A","P","I","_","K","E","Y">>, <<"t","i","i","n","g","o","_","k","e","y">>}}

GatewayInit ==
    /\ hImpl = "tiingo"
    /\ env \in GatewayEnvs
    /\ hEnvKey = envLookup(env, <<"T","I","I","N","G","O","_","K","E","Y">>)
    /\ hNow \in NowDays
    /\ hEvent = NoEvent
    /\ hPc = "idle"
    /\ hFetches = 0
    /\ hResp = Rejected
    /\ hOut = NoOut
    /\ clock = 0
    /\ copt = RestOptions
    /\ cache = EmptyCache
    /\ limiter = newRateLimiter(RestOptions.maxRequests, RestOptions.windowMs, 0)
    /\ call = IdleCalls
    /\ started = 0
    /\ grantLog = <<>>
    /\ ePc = "start"
    /\ resolved = EmptyDetail
    /\ sCall = IdleCut
    /\ mockFiles = NoFiles
    /\ mockCache = EmptyMockCache
    /\ mockLoads = IdleLoads
    /\ mockFetches = NoFetches
    /\ clients = NoClients
    /\ defaultClient = 0
    /\ iCall = IdleInstCall

GatewayNext ==
    \/ TiingoReceive
    \/ UpstreamSettles
    \/ TiingoResume

SpecGateway == GatewayInit /\ [][GatewayNext]_vars

-----------------------------------------------------------------------------
(* The lookback window of one intraday request *)

LookbackInit ==
    /\ hImpl = "tiingo"
    /\ hEnvKey = None
    /\ hNow = 0
    /\ hEvent = NoEvent
    /\ hPc = "idle"
    /\ hFetches = 0
    /\ hResp = Rejected
    /\ hOut = NoOut
    /\ clock = 0
    /\ copt = RestOptions
    /\ cache = EmptyCache
    /\ limiter = newRateLimiter(RestOptions.maxRequests, RestOptions.windowMs, 0)
    /\ call = IdleCalls
    /\ started = 0
    /\ grantLog = <<>>
    /\ env = <<>>
    /\ ePc = "start"
    /\ resolved = EmptyDetail
    /\ sCall \in LookbackCalls
    /\ mockFiles = NoFiles
    /\ mockCache = EmptyMockCache
    /\ mockLoads = IdleLoads
    /\ mockFetches = NoFetches
    /\ clients = NoClients
    /\ defaultClient = 0
    /\ iCall = IdleInstCall

LookbackNext == ComputeLookback

SpecLookback == LookbackInit /\ [][LookbackNext]_vars

-----------------------------------------------------------------------------
(* The interval of one intraday request *)

IntervalInit ==
    /\ hImpl = "tiingo"
    /\ hEnvKey = None
    /\ hNow = 0
    /\ hEvent = NoEvent
    /\ hPc = "idle"
    /\ hFetches = 0
    /\ hResp = Rejected
    /\ hOut = NoOut
    /\ clock = 0
    /\ copt = RestOptions
    /\ cache = EmptyCache
    /\ limiter = newRateLimiter(RestOptions.maxRequests, RestOptions.windowMs, 0)
    /\ call = IdleCalls
    /\ started = 0
    /\ grantLog = <<>>
    /\ env = <<>>
    /\ ePc = "start"
    /\ resolved = EmptyDetail
    /\ sCall \in IntervalCalls
    /\ mockFiles = NoFiles
    /\ mockCache = EmptyMockCache
    /\ mockLoads = IdleLoads
    /\ mockFetches = NoFetches
    /\ clients = NoClients
    /\ defaultClient = 0
    /\ iCall = IdleInstCall

IntervalNext == ParseInterval

SpecInterval == IntervalInit /\ [][IntervalNext]_vars

-----------------------------------------------------------------------------
(* Two callers of one rate limiter, for as long as time runs. Timers fire
   when they are due and time does not stop; nobody is obliged to call. *)

WaitersInit ==
    /\ clock = 0
    /\ copt \in {o \in ClientOptions : o.enableRateLimit /\ o.enableCache}
    /\ cache = EmptyCache
    /\ limiter = newRateLimiter(copt.maxRequests, copt.windowMs, 0)
    /\ call = [c \in PairIds |-> IdleCall]
    /\ started = 0
    /\ grantLog = <<>>
    /\ hImpl = "tiingo"
    /\ hEnvKey = None
    /\ hNow = 0
    /\ hEvent = NoEvent
    /\ hPc = "idle"
    /\ hFetches = 0
    /\ hResp = Rejected
    /\ hOut = NoOut
    /\ env = <<>>
    /\ ePc = "start"
    /\ resolved = EmptyDetail
    /\ sCall = IdleCut
    /\ mockFiles = NoFiles
    /\ mockCache = EmptyMockCache
    /\ mockLoads = IdleLoads
    /\ mockFetches = NoFetches
    /\ clients = NoClients
    /\ defaultClient = 0
    /\ iCall = IdleInstCall

WaitersNext ==
    \/ \E c \in PairIds : AcquireCall(c)
    \/ \E c \in PairIds : AcquirePoll(c)
    \/ TimePasses

SpecWaiters ==
    /\ WaitersInit
    /\ [][WaitersNext]_vars
    /\ WF_vars(TimePasses)
    /\ \A c \in PairIds : WF_vars(AcquirePoll(c))

-----------------------------------------------------------------------------
(* Two callers of one rate limiter on the clock of the process *)

BucketInit ==
    /\ clock = 0
    /\ copt \in {o \in ClientOptions : o.enableRateLimit /\ o.enableCache}
    /\ cache = EmptyCache
    /\ limiter = newRateLimiter(copt.maxRequests, copt.windowMs, 0)
    /\ call = [c \in PairIds |-> IdleCall]
    /\ started = 0
    /\ grantLog = <<>>
    /\ hImpl = "tiingo"
    /\ hEnvKey = None
    /\ hNow = 0
    /\ hEvent = NoEvent
    /\ hPc = "idle"
    /\ hFetches = 0
    /\ hResp = Rejected
    /\ hOut = NoOut
    /\ env = <<>>
    /\ ePc = "start"
    /\ resolved = EmptyDetail
    /\ sCall = IdleCut
    /\ mockFiles = NoFiles
    /\ mockCache = EmptyMockCache
    /\ mockLoads = IdleLoads
    /\ mockFetches = NoFetches
    /\ clients = NoClients
    /\ defaultClient = 0
    /\ iCall = IdleInstCall

BucketNext ==
    \/ \E c \in PairIds : AcquireCall(c)
    \/ \E c \in PairIds : AcquirePoll(c)
    \/ Tick

SpecBucket == BucketInit /\ [][BucketNext]_vars

-----------------------------------------------------------------------------
(* makeRequest with the default count of retries, time counted from the
   present; without rate limiting, and no fetch outlasts the abort timer *)

\* maxRetries as MAX_RETRIES sets it; retryDelay of one or two ticks
BackoffOptions ==
    {[timeout |-> 2, maxRetries |-> 3, retryDelay |-> d, maxRequests |-> 1,
      windowMs |-> 2, enableCache |-> ec, enableRateLimit |-> FALSE] :
        d \in {1, 2}, ec \in BOOLEAN}

BackoffInit ==
    /\ clock = 0
    /\ copt \in BackoffOptions
    /\ cache = EmptyCache
    /\ limiter = newRateLimiter(copt.maxRequests, copt.windowMs, 0)
    /\ call = IdleCalls
    /\ started = 0
    /\ grantLog = <<>>
    /\ hImpl = "tiingo"
    /\ hEnvKey = None
    /\ hNow = 0
    /\ hEvent = NoEvent
    /\ hPc = "idle"
    /\ hFetches = 0
    /\ hResp = Rejected
    /\ hOut = NoOut
    /\ env = <<>>
    /\ ePc = "start"
    /\ resolved = EmptyDetail
    /\ sCall = IdleCut
    /\ mockFiles = NoFiles
    /\ mockCache = EmptyMockCache
    /\ mockLoads = IdleLoads
    /\ mockFetches = NoFetches
    /\ clients = NoClients
    /\ defaultClient = 0
    /\ iCall = IdleInstCall

BackoffNext ==
    \/ \E c \in CallIds, r \in Requests, ro \in RequestOptions : StartRequest(c, r, ro)
    \/ \E c \in CallIds, s \in {200} \cup ErrorStatuses : FetchResponds(c, s)
    \/ \E c \in CallIds : FetchRejects(c)
    \/ \E c \in CallIds, text \in ErrorTexts : TextRead(c, text)
    \/ \E c \in CallIds, v \in JsonValues : JsonRead(c, v)
    \/ \E c \in CallIds : JsonFails(c)
    \/ \E c \in CallIds : SleepEnds(c)
    \/ TimePasses

SpecBackoff == BackoffInit /\ [][BackoffNext]_vars

-----------------------------------------------------------------------------
(* The module tiingo-client.js once loaded: no TiingoClient constructed yet *)

InstancesInit ==
    /\ clock = 0
    /\ copt = RestOptions
    /\ cache = EmptyCache
    /\ limiter = newRateLimiter(RestOptions.maxRequests, RestOptions.windowMs, 0)
    /\ call = IdleCalls
    /\ started = 0
    /\ grantLog = <<>>
    /\ hImpl = "tiingo"
    /\ hEnvKey = None
    /\ hNow = 0
    /\ hEvent = NoEvent
    /\ hPc = "idle"
    /\ hFetches = 0
    /\ hResp = Rejected
    /\ hOut = NoOut
    /\ env = <<>>
    /\ ePc = "start"
    /\ resolved = EmptyDetail
    /\ sCall = IdleCut
    /\ mockFiles = NoFiles
    /\ mockCache = EmptyMockCache
    /\ mockLoads = IdleLoads
    /\ mockFetches = NoFetches
    /\ clients = NoClients
    /\ defaultClient = 0
    /\ iCall = IdleInstCall

InstancesNext ==
    \/ \E options \in InstOptions : NewClient(options)
    \/ \E options \in InstOptions : GetDefaultClient(options)
    \/ \E i \in InstanceIds, r \in InstRequests : ClientRequest(i, r)
    \/ \E r \in InstRequests : TiingoRequest(r)
    \/ InstancePoll
    \/ \E v \in InstValues : InstanceReturns(v)
    \/ InstanceThrows
    \/ InstanceTick

SpecInstances == InstancesInit /\ [][InstancesNext]_vars

-----------------------------------------------------------------------------
(* new SimpleCache(), then any calls of its methods as time passes *)

CacheInit ==
    /\ clock = 0
    /\ copt = RestOptions
    /\ cache = EmptyCache
    /\ limiter = newRateLimiter(RestOptions.maxRequests, RestOptions.windowMs, 0)
    /\ call = IdleCalls
    /\ started = 0
    /\ grantLog = <<>>
    /\ hImpl = "tiingo"
    /\ hEnvKey = None
    /\ hNow = 0
    /\ hEvent = NoEvent
    /\ hPc = "idle"
    /\ hFetches = 0
    /\ hResp = Rejected
    /\ hOut = NoOut
    /\ env = <<>>
    /\ ePc = "start"
    /\ resolved = EmptyDetail
    /\ sCall = IdleCut
    /\ mockFiles = NoFiles
    /\ mockCache = EmptyMockCache
    /\ mockLoads = IdleLoads
    /\ mockFetches = NoFetches
    /\ clients = NoClients
    /\ defaultClient = 0
    /\ iCall = IdleInstCall

CacheNext ==
    \/ \E k \in CacheKeys, v \in JsonValues, ttl \in CacheTtls : CacheSetCall(k, v, ttl)
    \/ \E k \in CacheKeys : CacheGetCall(k)
    \/ \E k \in CacheKeys : CacheDeleteCall(k)
    \/ CacheClearCall
    \/ CacheSizeCall
    \/ CacheTick

SpecCache == CacheInit /\ [][CacheNext]_vars

-----------------------------------------------------------------------------
(* One request to netlify/functions/tiingo-data.js *)

DataHandlerInit ==
    /\ hImpl = "tiingo-data"
    /\ hEnvKey \in EnvKeys
    /\ hNow \in NowDays
    /\ hEvent = NoEvent
    /\ hPc = "idle"
    /\ hFetches = 0
    /\ hResp = Rejected
    /\ hOut = NoOut
    /\ clock = 0
    /\ copt = RestOptions
    /\ cache = EmptyCache
    /\ limiter = newRateLimiter(RestOptions.maxRequests, RestOptions.windowMs, 0)
    /\ call = IdleCalls
    /\ started = 0
    /\ grantLog = <<>>
    /\ env = <<>>
    /\ ePc = "start"
    /\ resolved = EmptyDetail
    /\ sCall = IdleCut
    /\ mockFiles = NoFiles
    /\ mockCache = EmptyMockCache
    /\ mockLoads = IdleLoads
    /\ mockFetches = NoFetches
    /\ clients = NoClients
    /\ defaultClient = 0
    /\ iCall = IdleInstCall

DataHandlerNext ==
    \/ DataReceive
    \/ UpstreamSettles
    \/ DataResume

SpecDataHandler == DataHandlerInit /\ [][DataHandlerNext]_vars
-----------------------------------------------------------------------------
(* Properties of the function handlers, under SpecHandler *)

\* C1: the degrade-gracefully handler (tiingo.js) answers every request that
\* has a non-blank symbol with status 200 and an envelope of symbol, data and
\* meta, whatever the kind and whatever the provider did; it never throws.
C1_AlwaysEnvelope ==
    (/\ hImpl = "tiingo"
     /\ hPc \in {"done", "thrown"}
     /\ hEvent.httpMethod # "OPTIONS"
     /\ trim(nullish(hEvent.symbol, <<>>)) # <<>>)
    => (/\ ~hOut.threw
        /\ hOut.statusCode = 200
        /\ hOut.body.t = "envelope")

\* C2: with no credential configured, every 200 envelope of tiingo.js carries
\* a non-empty warning and a meta.reason other than "ok", for every kind.
C2_NoCredentialWarns ==
    (/\ hImpl = "tiingo"
     /\ hPc = "done"
     /\ hOut.body.t = "envelope"
     /\ tokenOf(hEnvKey) = <<>>)
    => (/\ hOut.body.warning # ""
        /\ hOut.body.meta.reason # "ok")

\* C3: a response of tiingo.js whose data came out of a fallback generator
\* carries a non-empty warning and meta.reason = "fallback".
C3_GeneratedIsFlagged ==
    (/\ hImpl = "tiingo"
     /\ hPc = "done"
     /\ hOut.body.t = "envelope"
     /\ hOut.generated)
    => (/\ hOut.body.warning # ""
        /\ hOut.body.meta.reason = "fallback")

\* C4: in both handlers a request (other than the OPTIONS preflight) whose
\* symbol is absent, empty or blank after trimming ends at once with status
\* 400 and an error body, with or without a token, and no upstream request.
C4_BlankSymbolIs400 ==
    (/\ hPc # "idle"
     /\ hEvent.httpMethod # "OPTIONS"
     /\ trim(nullish(hEvent.symbol, <<>>)) = <<>>)
    => (/\ hPc = "done"
        /\ hOut.statusCode = 400
        /\ hOut.body.t = "error"
        /\ hFetches = 0)

-----------------------------------------------------------------------------
(* Properties of TiingoClient.makeRequest, under SpecClient *)

\* C5: with caching in use, a makeRequest call that starts while the entry of
\* its endpoint and params is within its TTL returns the cached value and
\* issues no fetch; one that starts after the TTL has elapsed goes to the
\* network.
C5_ServedFromCacheWithinTtl ==
    \A c \in CallIds :
        LET cr == call[c]
        IN  (/\ cr.op = "makeRequest"
             /\ useCache(copt, cr.ropts)
             /\ cr.sawEntry.has)
            => IF cr.startedAt <= cr.sawEntry.expiresAt
               THEN /\ cr.pc = "returned"
                    /\ cr.fromCache
                    /\ cr.fetches = 0
                    /\ cr.result = cr.sawEntry.value
               ELSE ~cr.fromCache

\* C7: makeRequest makes at most maxRetries + 1 fetches; an attempt that
\* failed is followed by another one unless it was an HTTP 400, 401, 403 or
\* 404 response or the count is exhausted; a 400/401/403/404 response ends
\* the call with that error.
C7_RetryPolicy ==
    \A c \in CallIds :
        LET cr == call[c]
            clientStatus == cr.lastFailure = "http" /\ cr.status \in {400, 401, 403, 404}
        IN  cr.op = "makeRequest"
            => /\ cr.fetches <= copt.maxRetries + 1
               /\ cr.pc = "thrown" => (clientStatus \/ cr.fetches = copt.maxRetries + 1)
               /\ cr.pc = "sleeping" => ~clientStatus
               /\ cr.pc = "thrown" => cr.lastError # <<>>

\* C8: with rate limiting in use, the fetches a makeRequest call has issued
\* never outnumber the tokens it has acquired.
C8_FetchesWithinTokens ==
    \A c \in CallIds :
        (call[c].op = "makeRequest" /\ useRateLimit(copt, call[c].ropts))
        => call[c].fetches <= call[c].acquires

\* C9: no attempt of makeRequest (the request and the reading of its
\* response) is in flight for longer than the configured timeout.
C9_AttemptWithinTimeout ==
    \A c \in CallIds :
        call[c].pc \in {"fetching", "readingJson", "readingText"}
        => clock - call[c].attemptStart <= copt.timeout

-----------------------------------------------------------------------------
(* Properties of the rate limiter, under SpecLimiter *)

\* C6: in every window of windowMs clock ticks, at most maxRequests calls of
\* acquire() complete without waiting.
C6_WindowBound ==
    \A t \in 0..MaxTime :
        Cardinality({i \in DOMAIN grantLog :
                        /\ ~grantLog[i].waited
                        /\ grantLog[i].at >= t
                        /\ grantLog[i].at < t + copt.windowMs}) <= copt.maxRequests

-----------------------------------------------------------------------------
(* Properties of the credential resolver, under SpecEnv *)

\* C10: getTiingoTokenDetail returns the first match of (a) the canonical
\* names in TIINGO_TOKEN_ENV_KEYS order, (b) the same names lower-cased,
\* (c) the values of the environment in order, (d) the names of the
\* environment in order; the source names the stage, and with no match the
\* result is the empty credential.
C10_FirstMatchWins ==
    ePc = "resolved" =>
        LET K == TIINGO_TOKEN_ENV_KEYS
            least(S) == CHOOSE x \in S : \A y \in S : x <= y
            canon == {i \in 1..Len(K) :
                        extractTokenCandidate(readEnvValue(env, K[i])) # <<>>}
            lower == {i \in 1..Len(K) :
                        extractTokenCandidate(readEnvValue(env, toLowerCase(K[i]))) # <<>>}
            values == {i \in 1..Len(env) : extractTokenCandidate(env[i][2]) # <<>>}
            names == {i \in 1..Len(env) : extractTokenCandidate(env[i][1]) # <<>>}
        IN  IF canon # {}
            THEN resolved = [key |-> K[least(canon)],
                             token |-> extractTokenCandidate(readEnvValue(env, K[least(canon)])),
                             source |-> "env:preferred"]
            ELSE IF lower # {}
            THEN resolved = [key |-> toLowerCase(K[least(lower)]),
                             token |-> extractTokenCandidate(
                                           readEnvValue(env, toLowerCase(K[least(lower)]))),
                             source |-> "env:lowercase"]
            ELSE IF values # {}
            THEN resolved = [key |-> env[least(values)][1],
                             token |-> extractTokenCandidate(env[least(values)][2]),
                             source |-> "env:scan"]
            ELSE IF names # {}
            THEN resolved = [key |-> env[least(names)][1],
                             token |-> extractTokenCandidate(env[least(names)][1]),
                             source |-> "env:name-as-token"]
            ELSE resolved = EmptyDetail

\* A lower-cased canonical name matched although an earlier variable of
\* another name holds a token-like value
C10_LowercaseBeatsScan ==
    /\ ePc = "resolved"
    /\ Len(env) = 2
    /\ env[1] = <<<<"P","A","T","H">>, TokenA>>
    /\ resolved = [key |-> <<"t","i","i","n","g","o","_","k","e","y">>, token |-> TokenB, source |-> "env:lowercase"]

-----------------------------------------------------------------------------
(* Properties of the token extraction, under SpecToken *)

\* C11: every non-empty token the resolver returns consists of alphanumerics,
\* '-' and '_' only, is between 24 and 128 characters long, and is none of
\* the literals true, false, null, 0, 1.
C11_TokenShape ==
    (ePc = "resolved" /\ resolved.token # <<>>)
    => (/\ \A i \in 1..Len(resolved.token) : resolved.token[i] \in TokenChars
        /\ Len(resolved.token) >= 24
        /\ Len(resolved.token) <= 128
        /\ ~disallowedLiterals(resolved.token))

-----------------------------------------------------------------------------
(* Further properties of the function handlers, under SpecHandler *)

\* C12: the token preview of a response of tiingo.js never contains the
\* configured token in full, and tokens that agree on their first four and
\* last four characters get the same preview.
C12_PreviewHidesToken ==
    (/\ hImpl = "tiingo"
     /\ hPc = "done"
     /\ hOut.body.t = "envelope"
     /\ trim(tokenOf(hEnvKey)) # <<>>)
    => LET token == trim(tokenOf(hEnvKey))
           preview == hOut.body.meta.tokenPreview
       IN  /\ ~includes(preview, token)
           /\ \A k \in EnvKeys :
                 (/\ k.has
                  /\ sliceStr(trim(k.s), 0, 4) = sliceStr(token, 0, 4)
                  /\ sliceLast(trim(k.s), 4) = sliceLast(token, 4))
                 => previewToken(k) = preview


\* C13: every 200 response that carries an envelope has a meta object with all
\* nine fields source, reason, fallback, kind, timestamp, currency, exchange,
\* chosenKey and tokenPreview, in both function handlers
MetaFields ==
    {"source", "reason", "fallback", "kind", "timestamp", "currency", "exchange",
     "chosenKey", "tokenPreview"}

C13_MetaHasAllFields ==
    (/\ hPc = "done" /\ ~hOut.threw /\ hOut.statusCode = 200
     /\ hOut.body.t = "envelope")
    => MetaFields \subseteq DOMAIN hOut.body.meta

\* C14: whatever the limit parameter and the size of the provider's payload,
\* the series returned by tiingo.js has at most 300 bars for kind intraday and
\* at most 365 bars for kind eod
C14_SeriesWithinMaximum ==
    (/\ hImpl = "tiingo" /\ hPc = "done" /\ ~hOut.threw
     /\ hOut.body.t = "envelope"
     /\ hOut.body.meta.kind \in {K_intraday, K_eod})
    => Len(hOut.body.data) <= (IF hOut.body.meta.kind = K_intraday THEN 300 ELSE 365)

\* C15: with no credential, for every integer limit up to the kind's maximum,
\* tiingo.js answers kind eod and kind intraday with status 200, a non-empty
\* warning, a non-empty meta.fallback and a synthetic series of exactly limit
\* bars, stamped limit-1, ..., 1, 0 steps before the current time
C15_SyntheticSeriesHasLimitBars ==
    (/\ hImpl = "tiingo" /\ hPc = "done" /\ hEvent.httpMethod = "GET"
     /\ trim(nullish(hEvent.symbol, <<>>)) # <<>>
     /\ tokenOf(hEnvKey) = <<>>
     /\ normaliseKind(hEvent.kind) \in {K_intraday, K_eod}
     /\ hEvent.limit.has /\ ~parseInt(hEvent.limit.s).nan
     /\ parseInt(hEvent.limit.s).v
           <= (IF normaliseKind(hEvent.kind) = K_intraday THEN 300 ELSE 365))
    => LET limit == parseInt(hEvent.limit.s).v
       IN  /\ ~hOut.threw /\ hOut.statusCode = 200
           /\ hOut.body.t = "envelope"
           /\ hOut.body.warning # "" /\ hOut.body.meta.fallback # ""
           /\ Len(hOut.body.data) = limit
           /\ \A j \in 1..Len(hOut.body.data) : hOut.body.data[j].idx = limit - j

\* C17: every quote tiingo.js returns, generated or built from a provider
\* quote, has high >= max(open, last) and low <= min(open, last)
C17_QuoteHighLowBracket ==
    (/\ hImpl = "tiingo" /\ hPc = "done" /\ hOut.body.t = "envelope"
     /\ hOut.body.meta.kind = K_intraday_latest)
    => \A i \in 1..Len(hOut.body.data) :
          LET q == hOut.body.data[i]
          IN  /\ q.high >= Max(q.open, q.last)
              /\ q.low <= Min(q.open, q.last)

\* C18: every quote a handler derives from a provider quote has
\* change = price - previousClose, and changePercent = change / previousClose
\* * 100 when previousClose is not zero and 0 otherwise
C18_ChangeFollowsPrices ==
    (/\ hPc = "done" /\ hOut.body.t = "envelope" /\ ~hOut.generated
     /\ IF hImpl = "tiingo" THEN normaliseKind(hEvent.kind) = K_intraday_latest
        ELSE hEvent.kind = Some(K_intraday_latest))
    => \A i \in 1..Len(hOut.body.data) :
          LET q == hOut.body.data[i]
              pct == q.changePercent
          IN  /\ q.change = q.price - q.previousClose
              /\ pct.den # 0
              /\ IF q.previousClose # 0
                 THEN pct.num * q.previousClose = q.change * 100 * pct.den
                 ELSE pct.num = 0

\* C19: for kind intraday_latest, tiingo.js never returns a quote whose last
\* (or price) is 0 under meta.reason "ok" and meta.source "live"
C19_NoZeroLiveQuote ==
    (/\ hImpl = "tiingo" /\ hPc = "done" /\ hOut.body.t = "envelope"
     /\ hOut.body.meta.kind = K_intraday_latest
     /\ hOut.body.meta.reason = "ok" /\ hOut.body.meta.source = "live")
    => \A i \in 1..Len(hOut.body.data) :
          hOut.body.data[i].last # 0 /\ hOut.body.data[i].price # 0

\* C20: a request without a kind parameter, or with an empty one, is handled
\* as kind eod
C20_MissingKindIsEod ==
    (/\ hImpl = "tiingo" /\ hPc = "done" /\ hOut.body.t = "envelope"
     /\ nullish(hEvent.kind, <<>>) = <<>>)
    => hOut.body.meta.kind = K_eod

\* C21: a kind given in the request is canonicalized through the alias table,
\* whatever its case: quote and quotes are handled as intraday_latest, a
\* canonical kind as itself and any other kind as eod
C21_KindThroughAliasTable ==
    (/\ hImpl = "tiingo" /\ hPc = "done" /\ hOut.body.t = "envelope"
     /\ trim(nullish(hEvent.kind, <<>>)) # <<>>)
    => /\ hOut.body.meta.kind = mockNormaliseKind(Some(trim(hEvent.kind.s)))
       /\ mockNormaliseKind(Some(hOut.body.meta.kind)) = hOut.body.meta.kind

\* C22: tiingo.js answers a request that has a non-blank symbol and a kind
\* outside its switch with status 200, a stub object as data, meta.reason
\* "unsupported" and a non-empty warning, and issues no upstream request,
\* with or without a token
ImplementedKinds ==
    {<<"i","n","t","r","a","d","a","y","_","l","a","t","e","s","t">>, <<"i","n","t","r","a","d","a","y">>, <<"e","o","d">>, <<"n","e","w","s">>, <<"d","o","c","u","m","e","n","t","s">>, <<"a","c","t","i","o","n","s">>,
     <<"f","i","l","i","n","g","s">>, <<"s","t","a","t","e","m","e","n","t","s">>}

C22_UnsupportedKindStub ==
    (/\ hImpl = "tiingo" /\ hPc # "idle"
     /\ hEvent.httpMethod # "OPTIONS"
     /\ trim(nullish(hEvent.symbol, <<>>)) # <<>>
     /\ toLowerCase(trim(nullish(hEvent.kind, <<>>))) \notin ImplementedKinds \cup {<<>>})
    => /\ hPc = "done" /\ hFetches = 0
       /\ ~hOut.threw /\ hOut.statusCode = 200
       /\ hOut.body.t = "envelope"
       /\ "message" \in DOMAIN hOut.body.data
       /\ hOut.body.meta.reason = "unsupported"
       /\ hOut.body.warning # ""

\* An unsupported kind was answered although a token is configured
C22_StubWithToken ==
    /\ hImpl = "tiingo" /\ hPc = "done" /\ tokenOf(hEnvKey) # <<>>
    /\ hEvent.kind = Some(<<"v","a","l","u","a","t","i","o","n">>)
    /\ hOut.body.t = "envelope" /\ hOut.body.meta.reason = "unsupported"
    /\ hFetches = 0

\* C23: for kind valuation the handler's data is a valuation snapshot (price,
\* quote, fundamentals and the valuation figures) and no upstream request is
\* issued
C23_ValuationIsSnapshot ==
    (/\ hImpl = "tiingo" /\ hPc = "done" /\ hOut.body.t = "envelope"
     /\ normaliseKind(hEvent.kind) = <<"v","a","l","u","a","t","i","o","n">>)
    => /\ hFetches = 0
       /\ {"price", "quote", "fundamentals", "valuation"} \subseteq DOMAIN hOut.body.data

-----------------------------------------------------------------------------
(* Properties of the series cuts, under SpecSeries *)

\* The last min(limit, n) of n items, in their order
LastBars(items, limit) ==
    LET n == Len(items)
        m == IF limit < n THEN limit ELSE n
    IN  [i \in 1..m |-> items[n - m + i]]

rowDate(row) == IF "timestamp" \in DOMAIN row THEN row.timestamp ELSE row.date
rowDates(rows) == [i \in 1..Len(rows) |-> rowDate(rows[i])]

\* The limit a handler cuts its series to
handlerLimit(impl, ev) ==
    IF impl = "tiingo"
    THEN (IF ev.kind.s = K_intraday THEN tiingoIntradayLimit(ev) ELSE tiingoEodLimit(ev))
    ELSE (IF ev.kind.s = K_intraday THEN dataLimit(ev, 150, 300)
          ELSE dataLimit(ev, 180, 365))

\* C16: a series of n bars cut to a positive limit is the last min(limit, n)
\* bars in their order, and the array it was cut from is left as it was: on
\* the live intraday and eod paths of the handlers, in getStockPrices and
\* getIntradayPrices, and in the intraday and eod sections of the mock extractor
C16_CutKeepsLastBars ==
    [][/\ (/\ hPc = "settled" /\ hPc' = "done"
           /\ handlerLimit(hImpl, hEvent) > 0
           /\ ~hOut'.generated /\ hOut'.body.t = "envelope")
          => /\ hResp' = hResp
             /\ rowDates(hOut'.body.data)
                  = rowDates(LastBars(hResp.value.items, handlerLimit(hImpl, hEvent)))
       /\ (/\ sCall.pc = "resolved" /\ sCall'.pc = "done"
           /\ sCall.data.t = "array" /\ sCall.limit.k = "number" /\ sCall.limit.n > 0)
          => /\ sCall'.data = sCall.data
             /\ sCall'.out = [t |-> "array", items |-> LastBars(sCall.data.items, sCall.limit.n)]
       /\ (/\ sCall.pc = "called" /\ sCall'.pc = "done"
           /\ sCall.kind \in {K_intraday, K_eod}
           /\ sCall.limit.k = "number" /\ sCall.limit.n > 0)
          => LET section == IF sCall.kind = K_intraday THEN sCall.data.intraday
                            ELSE sCall.data.eod
                 bars == IF section.t = "array" THEN section.items ELSE <<>>
             IN  /\ sCall'.data = sCall.data
                 /\ sCall'.out.items = LastBars(bars, sCall.limit.n)
      ]_vars

\* A price method returned fewer bars than the request resolved to
C16_PricesWereCut ==
    /\ sCall.pc = "done" /\ sCall.fn = "getStockPrices"
    /\ sCall.data.t = "array" /\ sCall.limit.k = "number"
    /\ 0 < sCall.limit.n /\ sCall.limit.n < Len(sCall.data.items)
    /\ Len(sCall.out.items) = sCall.limit.n

-----------------------------------------------------------------------------
(* Properties of the valuation snapshot, under SpecValuation *)

\* value is a number within half a cent (50 units) of n / d units
RoundedToCents(value, n, d) ==
    /\ value.k = "number"
    /\ value.n % 100 = 0
    /\ AbsInt(value.n * d - n) <= 50 * d

\* C24: for every positive price the snapshot has fairValue = price * 1.05,
\* suggestedEntry = price * 0.95, bull / base / bear = fairValue * 1.15 / 1 /
\* 0.85, each rounded to 2 decimals, upside = fairValue / price - 1 and
\* pe = price / eps; price 100 and eps 5 give pe 20.00, fairValue 105.00,
\* suggestedEntry 95.00 and bull 120.75
C24_ValuationFigures ==
    (/\ sCall.pc = "done" /\ sCall.fn = "computeValuationSnapshot"
     /\ sCall.out.price.k = "number" /\ sCall.out.price.n > 0)
    => LET v == sCall.out
           p == v.price.n
           f == sCall.data.fundamentals
           eps == IF f.t = "object" THEN f.metrics.earningsPerShare ELSE Undefined
       IN  /\ RoundedToCents(v.fairValue, p * 105, 100)
           /\ RoundedToCents(v.suggestedEntry, p * 95, 100)
           /\ v.upside.k = "number"
           /\ 2 * AbsInt(v.upside.n * p - (v.fairValue.n - p) * Unit) <= p
           /\ RoundedToCents(v.bull, v.fairValue.n * 115, 100)
           /\ v.base = v.fairValue
           /\ RoundedToCents(v.bear, v.fairValue.n * 85, 100)
           /\ (truthy(eps) /\ eps.n > 0 /\ eps.n % Unit = 0)
                 => RoundedToCents(v.pe, p, eps.n \div Unit)
           /\ (p = 100 * Unit /\ eps = Number(5 * Unit))
                 => /\ v.pe = Number(20 * Unit) /\ v.fairValue = Number(105 * Unit)
                    /\ v.suggestedEntry = Number(95 * Unit)
                    /\ v.bull = Number(1207500)

\* C25: a ratio field of the snapshot is null whenever its divisor is zero or
\* absent, and is a number only when the price and the divisor are both
\* present and not zero
C25_RatioNeedsPriceAndDivisor ==
    (sCall.pc = "done" /\ sCall.fn = "computeValuationSnapshot")
    => LET v == sCall.out
           f == sCall.data.fundamentals
           metric(name) == IF f.t = "object" THEN field(f.metrics, name) ELSE Undefined
           late(name) == IF f.t = "object" THEN field(f.latest, name) ELSE Undefined
           eps == coalesce(metric("earningsPerShare"), coalesce(metric("eps"), late("eps")))
           book == coalesce(metric("bookValuePerShare"), late("bookValuePerShare"))
           Ratio(r, divisor) ==
               /\ ~truthy(divisor) => r = Null
               /\ r # Null => truthy(v.price) /\ truthy(divisor)
       IN  /\ Ratio(v.pe, eps)
           /\ Ratio(v.priceToSales, metric("revenuePerShare"))
           /\ Ratio(v.priceToBook, book)
           /\ Ratio(v.priceToFcf, metric("freeCashFlowPerShare"))

-----------------------------------------------------------------------------
(* Properties of the symbol helpers, under SpecSymbol *)

\* C26: a bare ticker of the ASX table is mapped to its .AX form, with
\* currency AUD and exchange ASX; an upper-case symbol that already ends in
\* .AX is returned as it is; mapping a mapped symbol returns it unchanged; and the
\* currency is AUD exactly when the exchange is ASX
C26_SymbolMapping ==
    [][(sCall.fn = "mapSymbolForAPI" /\ sCall'.pc # sCall.pc)
       => LET o == sCall'.out
              given == IF sCall.pc = "called" THEN sCall.kind ELSE sCall.out.mapped
          IN  /\ given \in {<<"W","O","W">>, <<"C","B","A">>, <<"B","H","P">>, <<"C","S","L">>, <<"W","E","S">>,
                            <<"A","N","Z">>, <<"N","A","B">>, <<"W","B","C">>, <<"R","I","O">>, <<"T","L","S">>}
                    => /\ o.mapped = given \o <<".","A","X">>
                       /\ o.currency = "AUD" /\ o.exchange = "ASX"
              /\ (Len(given) > 3 /\ SubSeq(given, Len(given) - 2, Len(given)) = <<".","A","X">>
                  /\ given = toUpperCase(trim(given)))
                    => o.mapped = given /\ o.currency = "AUD" /\ o.exchange = "ASX"
              /\ sCall.pc = "done" => o.mapped = sCall.out.mapped
              /\ (o.currency = "AUD") <=> (o.exchange = "ASX")
      ]_vars

\* A lower-case ticker of the table was mapped, and mapped once more
C26_TickerMappedTwice ==
    /\ sCall.pc = "again" /\ sCall.fn = "mapSymbolForAPI"
    /\ sCall.kind = <<"w","o","w">> /\ sCall.out.mapped = <<"W","O","W",".","A","X">>
    /\ sCall.out.currency = "AUD"

-----------------------------------------------------------------------------
(* Properties of the bundled mock data, under SpecMockCache *)

\* A loadMockRecord of symbol s returns in this step
LoadReturns(id, s) ==
    /\ mockLoads[id].pc \in {"attempt", "fetch", "json"}
    /\ mockLoads'[id].pc = "loaded"
    /\ Head(mockLoads[id].attempts) = s

\* C27: loadMockRecord caches a record only after a successful load: the
\* cache of a symbol changes only when a load of that symbol parsed the file
\* to an object, or when the cache is cleared. Once a record is cached it
\* stays the same until the cache is cleared, and a load of that symbol returns
\* it without a fetch. A load that returns nothing leaves the cache as it was,
\* and a load of a symbol that is not cached, on a page that has fetched
\* before, fetches again.
C27_CachedAfterSuccessfulLoad ==
    [][\A s \in MockSymbols :
        /\ (mockCache'[s] # mockCache[s] /\ mockCache'[s] # NotCached)
            => /\ mockFiles.files[s].t = "json"
               /\ mockCache'[s] = mockFiles.files[s].value
               /\ "scalar" \notin DOMAIN mockCache'[s]
               /\ \E id \in LoadIds : /\ LoadReturns(id, s)
                                      /\ mockLoads[id].pc = "json"
                                      /\ mockLoads'[id].rec = mockCache'[s]
        /\ (mockCache[s] # NotCached /\ mockCache'[s] # NotCached)
            => mockCache'[s] = mockCache[s]
        /\ \A id \in LoadIds :
            /\ (mockCache[s] # NotCached /\ mockLoads[id].pc = "attempt"
                /\ Head(mockLoads[id].attempts) = s /\ mockLoads'[id] # mockLoads[id])
                => /\ LoadReturns(id, s)
                   /\ mockLoads'[id].rec = mockCache[s]
                   /\ mockFetches' = mockFetches
            /\ (LoadReturns(id, s) /\ "scalar" \in DOMAIN mockLoads'[id].rec)
                => mockCache' = mockCache
            /\ (mockCache[s] = NotCached /\ mockLoads[id].pc = "attempt"
                /\ Head(mockLoads[id].attempts) = s /\ mockLoads'[id] # mockLoads[id]
                /\ mockFetches[s] > 0)
                => /\ mockLoads'[id].pc = "fetch"
                   /\ mockFetches'[s] = mockFetches[s] + 1]_vars

\* One caller has fetched AAPL in each of its two calls, and the first load of
\* AAPL by the other caller returned the cached record without a fetch
C27_CacheHitAfterFailure ==
    \E id, other \in LoadIds :
        /\ mockLoads[id].pc = "loaded"
        /\ mockLoads[id].calls = 1
        /\ Head(mockLoads[id].attempts) = <<"A","A","P","L">>
        /\ mockLoads[id].fetched = FALSE
        /\ mockLoads[id].rec = mockCache[<<"A","A","P","L">>]
        /\ mockCache[<<"A","A","P","L">>] # NotCached
        /\ mockLoads[other].calls = 2
        /\ mockFetches[<<"A","A","P","L">>] = 2

-----------------------------------------------------------------------------
(* Properties of the bundled mock data, under SpecMockData *)

\* Data that is worth returning: a list with an item, corporate actions with
\* an item, a snapshot with a price, or a section of the record
holdsData(data) ==
    CASE data.t = "null" -> FALSE
      [] data.t = "array" -> data.items # <<>>
      [] data.t = "actions" -> data.dividends # <<>> \/ data.splits # <<>>
      [] data.t = "snapshot" -> data.price # Null
      [] OTHER -> TRUE

\* The record of symbol s is loaded and holds data for the kind of the call
cachedData(load, s) ==
    /\ mockCache[s] # NotCached
    /\ holdsData(extractFromRecord(mockCache[s], load.kind, load.params.limit))

\* C28: loadMockTiingo tries the upper-cased requested symbol first and the
\* GENERIC record second. What it returns is the data of the record it names,
\* and that record holds data for the kind: never an empty list, never a
\* snapshot without a price. The GENERIC record is used only when the record
\* of the symbol is not loaded or holds no data, and null is returned only
\* when no loaded record holds data.
C28_FallsBackToGeneric ==
    \A id \in LoadIds :
        LET load == mockLoads[id]
            attempts == symbolAttempts(load.requested)
        IN  (load.pc = "done" /\ load.calls > 0 /\ mockFiles.page # "none")
            => /\ load.requested =
                    toUpperCase(trim(IF load.params.symbol.has THEN load.params.symbol.s
                                     ELSE <<>>))
               /\ load.out.t = "result"
                    => /\ load.out.mockSymbol \in {attempts[i] : i \in 1..Len(attempts)}
                       /\ load.out.data =
                            extractFromRecord(mockFiles.files[load.out.mockSymbol].value,
                                              load.kind, load.params.limit)
                       /\ holdsData(load.out.data)
                       /\ load.out.mockSymbol # Head(attempts)
                            => ~cachedData(load, Head(attempts))
               /\ load.out.t = "null"
                    => \A i \in 1..Len(attempts) : ~cachedData(load, attempts[i])

-----------------------------------------------------------------------------
(* Properties of two calls in flight together, under SpecPair *)

\* Call c is between its cache lookup and its return
InFlight(c) == call[c].pc \in {"acquireWait", "fetching", "readingJson", "sleeping"}

\* C29: two makeRequest calls with the same cache key that start before either
\* response has arrived both miss the cache and each issues its own upstream
\* call: a call that starts while the other is in flight and the cache has no
\* entry for the key does not return from the cache, and a call that returned
\* what it fetched has fetched itself. There is no de-duplication: the call
\* that completes writes its value to the cache over whatever is there, so once
\* both have completed the cache holds the value of the one that completed
\* last.
C29_NoSingleFlight ==
    [][/\ \A c, d \in PairIds :
            /\ (c # d /\ call[c].pc = "idle" /\ call'[c].pc # "idle" /\ InFlight(d)
                /\ call'[c].key = call[d].key /\ ~cache[call[d].key].has)
                => /\ InFlight(c)'
                   /\ call'[c].fromCache = FALSE
            /\ (call[c].pc = "readingJson" /\ call'[c].pc = "returned")
                => /\ call'[c].fetches >= 1
                   /\ cache'[call[c].key].has
                   /\ cache'[call[c].key].value = call'[c].result
       /\ \A k \in CacheKeys :
            cache'[k] # cache[k]
            => \E c \in PairIds :
                \/ /\ call[c].pc = "readingJson" /\ call'[c].pc = "returned"
                   /\ call[c].key = k
                \/ /\ ~InFlight(c) /\ call'[c] # call[c]
                   /\ call'[c].key = k
                   /\ cache'[k] = NoEntry]_vars

\* Both calls fetched while the other was in flight, the answers differ and
\* the cache holds the answer of the second call
C29_BothFetched ==
    /\ \A c \in PairIds : call[c].pc = "returned" /\ ~call[c].fromCache /\ call[c].fetches >= 1
    /\ call[1].key = call[2].key
    /\ call[1].result # call[2].result
    /\ call[1].startedAt = call[2].startedAt
    /\ cache[call[2].key].value = call[2].result
    /\ started = 2

-----------------------------------------------------------------------------
(* Properties of the handler in its environment, under SpecGateway *)

\* C30: the handler's credential is the one the resolver finds: whenever
\* getTiingoTokenDetail returns a token for the environment, a request for a
\* live kind attempts the fetch, the token it uses is the resolved token and
\* meta.chosenKey names the resolved key.
C30_HandlerUsesResolver ==
    LET detail == getTiingoTokenDetail(env)
    IN  (/\ hPc = "done"
         /\ hOut.body.t = "envelope"
         /\ normaliseKind(hEvent.kind) \in FetchKinds
         /\ detail.token # <<>>)
        => /\ hFetches > 0
           /\ tokenOf(hEnvKey) = detail.token
           /\ hOut.body.meta.chosenKey # ""
           /\ hOut.body.meta.chosenKey = "env:TIINGO_KEY" => detail.key = <<"T","I","I","N","G","O","_","K","E","Y">>

-----------------------------------------------------------------------------
(* Properties of the intraday lookback window, under SpecLookback *)

\* C31: for every limit in 1..300 and every positive interval the lookback
\* window is between 1 and 10 days, and it follows
\* ceil(limit * intervalMinutes / 390): it covers that many days unless the
\* ten-day maximum cuts it.
C31_LookbackWithinTenDays ==
    (sCall.fn = "lookbackDays" /\ sCall.pc = "done")
    => LET requiredMinutes == sCall.limit.n * sCall.data.n
           days == (requiredMinutes + 389) \div 390
       IN  /\ sCall.out.n >= 1
           /\ sCall.out.n <= 10
           /\ sCall.out.n >= Min(10, days)

\* 300 bars an hour apart need 47 trading days: the window is cut to 10 days
C31_LookbackCut ==
    /\ sCall.fn = "lookbackDays" /\ sCall.pc = "done"
    /\ sCall.limit.n = 300 /\ sCall.data.n = 60
    /\ sCall.out.n = 10

-----------------------------------------------------------------------------
(* Properties of the interval parameter, under SpecInterval *)

\* The duration in minutes of a documented interval, 5 for anything else
\* the model feeds in
DocumentedMinutes(interval) ==
    IF ~interval.has THEN 5
    ELSE CASE interval.s = <<"1","m","i","n">> -> 1
           [] interval.s = <<"5","m","i","n">> -> 5
           [] interval.s = <<"3","0","m","i","n">> -> 30
           [] interval.s = <<"1","h","o","u","r">> -> 60
           [] interval.s = <<" ","1","5","M","I","N"," ">> -> 15
           [] OTHER -> 5

\* C32: for each documented interval (1min, 5min, 30min, 1hour) the handler
\* uses that interval's duration in minutes (1, 5, 30, 60) as the spacing of
\* the generated intraday series and in the lookback computation; a missing or
\* unparsable interval, or one whose number is not positive, counts as 5
\* minutes.
C32_IntervalDuration ==
    (sCall.fn = "parseIntervalMinutes" /\ sCall.pc = "done")
    => LET minutes == DocumentedMinutes(sCall.data.value)
       IN  /\ sCall.out.spacing = minutes
           /\ sCall.out.lookbackDays = intradayLookbackDays(sCall.limit.n, minutes)

-----------------------------------------------------------------------------
(* Properties of callers waiting on the rate limiter, under SpecWaiters *)

\* C33: every call of RateLimiter.acquire eventually returns as time advances,
\* however many callers wait on the empty bucket and however their polls fall
\* in time.
C33_AcquireReturns ==
    \A c \in PairIds : (call[c].pc = "acquireWait") ~> (call[c].pc = "returned")

-----------------------------------------------------------------------------
(* Properties of the token bucket with two callers, under SpecBucket *)

\* The acquisitions granted up to time t
GrantsUpTo(t) == Cardinality({i \in DOMAIN grantLog : grantLog[i].at <= t})

\* C34: in every state of the rate limiter, however the acquire calls of the
\* callers interleave, 0 <= tokens <= maxRequests, and the acquisitions
\* granted up to any time t since construction are at most
\* maxRequests + floor(t / windowMs * maxRequests).
C34_BucketBounds ==
    /\ limiter.tokens >= 0
    /\ limiter.tokens <= limiter.maxRequests
    /\ \A t \in 0..clock :
          GrantsUpTo(t) <= limiter.maxRequests
                           + (t * limiter.maxRequests) \div limiter.windowMs

\* Time has passed, every acquisition the bound allows was granted and a
\* caller is still waiting
C34_CallerHeldBack ==
    /\ clock > 0
    /\ Len(grantLog) = limiter.maxRequests
                       + (clock * limiter.maxRequests) \div limiter.windowMs
    /\ \E c \in PairIds : call[c].pc = "acquireWait"

-----------------------------------------------------------------------------
(* Failures of the tiingo-data.js handler, under SpecDataHandler *)

-----------------------------------------------------------------------------
(* The backoff of makeRequest, under SpecBackoff *)

\* The last failure was an HTTP 400, 401, 403 or 404 response
clientStatusFailure(cr) == cr.lastFailure = "http" /\ cr.status \in {400, 401, 403, 404}

\* C36: between failed attempt k (counted from 0) and the next attempt
\* makeRequest sleeps retryDelay * 2^k, so the delays of one call strictly
\* increase; it does not sleep after the last attempt nor after a
\* 400/401/403/404 failure, and an attempt that succeeded is followed by no
\* attempt and no sleep.
C36_ExponentialBackoff ==
    \A c \in CallIds :
        LET cr == call[c]
        IN  cr.op = "makeRequest"
            => /\ \A k \in 0..(Len(cr.slept) - 1) :
                     cr.slept[k + 1] = copt.retryDelay * 2^k
               /\ \A i, j \in 1..Len(cr.slept) : i < j => cr.slept[i] < cr.slept[j]
               /\ Len(cr.slept) = IF cr.pc = "sleeping" THEN cr.attempt + 1 ELSE cr.attempt
               /\ cr.pc = "sleeping" => /\ cr.attempt < copt.maxRetries
                                        /\ ~clientStatusFailure(cr)
                                        /\ cr.wakeAt - clock <= cr.slept[Len(cr.slept)]
               /\ cr.pc \in {"returned", "thrown"} /\ ~cr.fromCache
                     => cr.fetches = Len(cr.slept) + 1
               /\ cr.fetches <= copt.maxRetries + 1

\* Every attempt of a call failed: three sleeps of 1, 2 and 4 ticks
C36_ThreeSleeps ==
    \E c \in CallIds :
        /\ call[c].op = "makeRequest" /\ call[c].pc = "thrown"
        /\ call[c].fetches = 4
        /\ call[c].slept = <<1, 2, 4>>

-----------------------------------------------------------------------------
(* Calls of makeRequest served from the cache, under SpecClient *)

\* C37: a makeRequest call served from the cache takes no token of the rate
\* limiter, issues no fetch and leaves the cache, the entry and its expiry
\* time included, as it was; the cache is read before the rate limiter is
\* asked, and the rate limiter is asked before the fetch.
C37_CacheHitFrame ==
    [][\A c \in CallIds :
          /\ (started' # started /\ call'[c].op = "makeRequest" /\ call'[c].fromCache)
                => /\ limiter' = limiter
                   /\ grantLog' = grantLog
                   /\ cache' = cache
                   /\ cache[call'[c].key].has
                   /\ call'[c].pc = "returned"
                   /\ call'[c].result = cache[call'[c].key].value
                   /\ call'[c].fetches = 0 /\ call'[c].acquires = 0
                   /\ ~call'[c].waited
          /\ (call'[c].op = "makeRequest" /\ call'[c].fromCache)
                => call'[c].fetches = 0 /\ call'[c].acquires = 0
          /\ (call'[c].op = "makeRequest" /\ call'[c].pc = "acquireWait")
                => call'[c].fetches = 0 /\ ~call'[c].fromCache
          /\ (call'[c].op = "makeRequest" /\ useRateLimit(copt, call'[c].ropts)
              /\ call'[c].fetches > 0)
                => call'[c].acquires > 0]_vars

\* A call was served from the cache while the bucket held no token
C37_HitOnEmptyBucket ==
    \E c \in CallIds :
        /\ call[c].op = "makeRequest" /\ call[c].pc = "returned" /\ call[c].fromCache
        /\ useRateLimit(copt, call[c].ropts)
        /\ limiter.tokens = 0
        /\ clock > 0
        /\ cache[call[c].key].has /\ cache[call[c].key].expiresAt >= clock

-----------------------------------------------------------------------------
(* Calls of makeRequest that throw, under SpecClient *)

\* get(key) at time now would return a value makeRequest returns as cached
servedFromCache(c, key, now) ==
    c[key].has /\ now <= c[key].expiresAt /\ truthyJson(c[key].value)

\* What a call that throws does to the cache: from its entry to its throw it
\* makes no step but the first that touches the map, and the first step
\* writes nothing: it leaves every other key alone and its own key too,
\* unless get() finds the entry expired and removes it.
throwingCallWritesNothing ==
    \A c \in CallIds :
        /\ (started' = started /\ call'[c].op = "makeRequest"
            /\ call'[c].pc # "returned")
              => cache' = cache
        /\ (started' # started /\ call'[c].op = "makeRequest")
              => /\ \A k \in CacheKeys \ {call'[c].key} : cache'[k] = cache[k]
                 /\ \/ cache'[call'[c].key] = cache[call'[c].key]
                    \/ /\ cache'[call'[c].key] = NoEntry
                       /\ clock > cache[call'[c].key].expiresAt
        /\ (call'[c].op = "makeRequest" /\ call'[c].pc = "thrown")
              => \A k \in CacheKeys :
                    cache'[k].has => \/ clock' > cache'[k].expiresAt
                                     \/ cacheGet(cache', k, clock').value = cache'[k].value

-----------------------------------------------------------------------------
(* TiingoClient objects and the default client, under SpecInstances *)

\* C39: two TiingoClient objects share neither cache entries nor rate-limit
\* tokens: a call through one changes neither what the other returns from
\* its cache nor the tokens it holds. getDefaultClient returns the same
\* object on every call, the tiingo.* functions all go through that object,
\* its cache and its rate limiter, and options passed once it exists change
\* nothing.
C39_InstancesApart ==
    [][/\ \A i, j \in InstanceIds :
             (i # j /\ iCall' # iCall /\ iCall'.client = i)
             => /\ clients'[j].limiter.tokens = clients[j].limiter.tokens
                /\ clients'[j].limiter = clients[j].limiter
                /\ clients'[j].cache = clients[j].cache
                /\ \A k \in CacheKeys :
                      cacheGet(clients'[j].cache, k, clock').value
                          = cacheGet(clients[j].cache, k, clock).value
       /\ defaultClient # 0
             => /\ defaultClient' = defaultClient
                /\ clients'[defaultClient].made
                /\ clients'[defaultClient].options = clients[defaultClient].options
       /\ (iCall' # iCall /\ (iCall'.op = "getDefaultClient" \/ iCall'.via = "tiingo"))
             => /\ defaultClient' # 0
                /\ iCall'.client = defaultClient'
                /\ clients'[defaultClient'].made]_vars

\* A request through one object was fetched although another object holds
\* an entry for its key, and a tiingo.* call before it was served by the
\* default client
C39_OtherClientFetched ==
    \E i, j \in InstanceIds :
        /\ i # j /\ clients[i].made /\ clients[j].made
        /\ defaultClient = i
        /\ iCall.op = "makeRequest" /\ iCall.client = j /\ iCall.pc = "returned"
        /\ ~iCall.fromCache
        /\ servedFromCache(clients[i].cache, iCall.key, clock)
        /\ clients[j].options.enableCache

-----------------------------------------------------------------------------
(* Properties of SimpleCache, under SpecCache *)

\* The entry of key k has not expired at time now
unexpired(c, k, now) == c[k].has /\ now <= c[k].expiresAt

\* C40: whatever calls of set, get, delete, clear and size came before and
\* however much time passed, get never returns a value whose expiry time
\* has passed; an expired entry is removed when it is read, and by size();
\* size() returns exactly the number of entries that have not expired; and
\* a set of a key that is present replaces its value and its expiry time.
C40_CacheExpiry ==
    [][/\ (sCall' # sCall /\ sCall'.fn = "get")
            => LET k == sCall'.key
               IN  /\ sCall'.out # JsUndefined
                        => /\ unexpired(cache, k, clock)
                           /\ sCall'.out = cache[k].value
                   /\ (cache[k].has /\ clock > cache[k].expiresAt)
                        => /\ sCall'.out = JsUndefined
                           /\ ~cache'[k].has
                   /\ unexpired(cache, k, clock) => cache' = cache
       /\ (sCall' # sCall /\ sCall'.fn = "size")
            => /\ sCall'.out
                     = Number(Cardinality({k \in CacheKeys : unexpired(cache, k, clock)}))
               /\ \A k \in CacheKeys :
                     /\ (cache[k].has /\ clock > cache[k].expiresAt) => ~cache'[k].has
                     /\ unexpired(cache, k, clock) => cache'[k] = cache[k]
       /\ (sCall' # sCall /\ sCall'.fn = "set")
            => /\ cache'[sCall'.key].has
               /\ cache'[sCall'.key].expiresAt >= clock
               /\ cache'[sCall'.key] = [has |-> TRUE, value |-> sCall'.value,
                                         expiresAt |-> clock + sCall'.ttl]
               /\ \A k \in CacheKeys \ {sCall'.key} : cache'[k] = cache[k]]_vars

\* size() returned 1 after it removed an expired entry
C40_SizeAfterExpiry ==
    /\ sCall.fn = "size" /\ sCall.pc = "done"
    /\ sCall.out = Number(1) /\ sCall.removed = 1
    /\ \E k \in CacheKeys : unexpired(cache, k, clock)
=============================================================================
